---- MODULE Spec2Model ----
(***************************************************************************)
(* A model of Hodos: the graph store and its generic traversal loop, the   *)
(* frontier strategies, the policy algebra, the preset visitors and the    *)
(* GraphBuilder.  Edge weights and costs are f64 in the source; the model  *)
(* uses the naturals, which f64 represents exactly in the ranges used.     *)
(***************************************************************************)
EXTENDS Integers, Sequences, FiniteSets

VARIABLES
    nodes,      \* Graph.nodes: id -> node payload
    edges,      \* Graph.edges: id -> sequence of outgoing edges
    pc,         \* position of the running operation
    cfg,        \* the arguments of the traversal: start, frontier and visitor kinds
    frontier,   \* the Frontier handed to traverse
    visitor,    \* the Visitor handed to traverse
    current_id, \* traverse: the id popped in this iteration
    idx,        \* traverse: position of the for loop over the popped id's edges
    log,        \* the calls made so far, in order
    sampler,    \* build: the state of the Sampler
    pending,    \* build: the nodes of the current sample still to go through
    edges_buffer, \* build: the local edges_buffer
    policy,     \* the policy under evaluation, with the state it carries
    ghost       \* history kept for the properties, never read by the program

vars == <<nodes, edges, pc, cfg, frontier, visitor, current_id, idx, log,
          sampler, pending, edges_buffer, policy, ghost>>

\* what Graph::traverse never touches
buildVars == <<sampler, pending, edges_buffer>>

policyVars == <<policy, ghost>>

(***************************************************************************)
(* Bounds of the model.                                                    *)
(***************************************************************************)
MaxNodeId == 2
MaxEdges == 3
MaxSamples == 2
MaxBudget == 1

\* the pushes of an id made on a frontier under test
MaxPushes == 3

Ids == 0 .. MaxNodeId

\* Option<T>: None is the empty set, Some(x) the singleton.
None == {}
Some(x) == {x}

Last(s) == s[Len(s)]
Front(s) == SubSeq(s, 1, Len(s) - 1)
RemoveAt(s, i) == SubSeq(s, 1, i - 1) \o SubSeq(s, i + 1, Len(s))

\* HashMap::insert
MapInsert(m, k, v) == [x \in DOMAIN m \cup {k} |-> IF x = k THEN v ELSE m[x]]

EmptyMap == [x \in {} |-> 0]

(***************************************************************************)
(* Edges and the graph store.                                              *)
(***************************************************************************)
\* Edge::weight default and WeightedEdge::new's unwrap_or
DefaultWeight == 1

UnweightedEdge(from, to) == [from |-> from, to |-> to, weight |-> DefaultWeight]

WeightedEdge(from, to, weight) == [from |-> from, to |-> to, weight |-> weight]

\* Variant of Graph::add_node that keeps the node already stored under the id
add_node_KeepFirst(ns, id, data) == IF id \in DOMAIN ns THEN ns ELSE MapInsert(ns, id, data)

\* Graph::add_node on the node map
add_node(ns, id, data) == MapInsert(ns, id, data)

\* Variant of Graph::add_edge that drops an edge equal to one already stored
add_edge_Dedup(es, e) ==
    IF e.from \in DOMAIN es
        THEN IF \E i \in 1 .. Len(es[e.from]) : es[e.from][i] = e
                 THEN es
                 ELSE [es EXCEPT ![e.from] = Append(@, e)]
        ELSE MapInsert(es, e.from, <<e>>)

\* Graph::add_edge on the edge map
add_edge(es, e) ==
    IF e.from \in DOMAIN es
        THEN [es EXCEPT ![e.from] = Append(@, e)]
        ELSE MapInsert(es, e.from, <<e>>)

\* Graph::get_edges, as far as a lookup by (from, to) sees it: the edges of one
\* source keep their insertion order
EdgesFrom(es, from) == IF from \in DOMAIN es THEN es[from] ELSE <<>>

\* the number of edges an edge map holds
EdgeCount(es) == Cardinality(UNION {{<<f, i>> : i \in 1 .. Len(es[f])} : f \in DOMAIN es})

(***************************************************************************)
(* Frontier strategies.  A frontier is [kind, opened, visited]: opened is  *)
(* the pending sequence (oldest push first), visited the ever-pushed set   *)
(* of Queue and Stack.  Queue and Stack store ids only; the heaps store    *)
(* (cost, id) items.                                                       *)
(***************************************************************************)
FrontierKinds == {"Queue", "Stack", "MinHeap", "MaxHeap"}

\* Frontier::new
Frontier_new(kind) == [kind |-> kind, opened |-> <<>>, visited |-> {}]

\* Variant of Queue::push and Stack::push that rejects no id
Dedup_push_Always(f, id) ==
    [f EXCEPT !.opened = Append(@, [id |-> id, cost |-> 0]), !.visited = @ \cup {id}]

\* Variant of Queue::push and Stack::push that rejects an id only while it is
\* pending
Dedup_push_PendingOnly(f, id) ==
    IF \A i \in 1 .. Len(f.opened) : f.opened[i].id # id
        THEN [f EXCEPT !.opened = Append(@, [id |-> id, cost |-> 0]),
                       !.visited = @ \cup {id}]
        ELSE f

\* Queue::push and Stack::push: the cost is dropped, an id ever pushed is rejected
Dedup_push(f, id) ==
    IF id \notin f.visited
        THEN [f EXCEPT !.opened = Append(@, [id |-> id, cost |-> 0]),
                       !.visited = @ \cup {id}]
        ELSE f

\* Variant of MinHeap::push and MaxHeap::push that rejects a pending id
Heap_push_Dedup(f, id, cost) ==
    IF \A i \in 1 .. Len(f.opened) : f.opened[i].id # id
        THEN [f EXCEPT !.opened = Append(@, [id |-> id, cost |-> cost])]
        ELSE f

\* MinHeap::push and MaxHeap::push: always one more item
Heap_push(f, id, cost) == [f EXCEPT !.opened = Append(@, [id |-> id, cost |-> cost])]

\* Frontier::push(id, Some(cost))
Frontier_push(f, id, cost) ==
    IF f.kind \in {"Queue", "Stack"} THEN Dedup_push(f, id) ELSE Heap_push(f, id, cost)

\* Frontier::is_empty
Frontier_is_empty(f) == Len(f.opened) = 0

\* Variant of MinHeapItem::cmp without the reversal
MinHeap_top_Unreversed(f) ==
    {i \in 1 .. Len(f.opened) :
        \A j \in 1 .. Len(f.opened) : f.opened[i].cost >= f.opened[j].cost}

\* MinHeapItem::cmp reversed on the cost: the greatest item is one of least cost.
\* BinaryHeap::pop returns a greatest item; which one among equals is not specified.
MinHeap_top(f) ==
    {i \in 1 .. Len(f.opened) :
        \A j \in 1 .. Len(f.opened) : f.opened[i].cost <= f.opened[j].cost}

\* MaxHeapItem::cmp on the cost
MaxHeap_top(f) ==
    {i \in 1 .. Len(f.opened) :
        \A j \in 1 .. Len(f.opened) : f.opened[i].cost >= f.opened[j].cost}

\* Variant of Frontier::pop in which Stack takes the oldest item, as Queue does
Frontier_pop_at_Fifo(f) ==
    IF Len(f.opened) = 0 THEN {}
    ELSE IF f.kind \in {"Queue", "Stack"} THEN {1}
    ELSE {i \in 1 .. Len(f.opened) :
             \A j \in 1 .. Len(f.opened) :
                 IF f.kind = "MinHeap" THEN f.opened[i].cost <= f.opened[j].cost
                 ELSE f.opened[i].cost >= f.opened[j].cost}

\* Variant of Frontier::pop in which Queue takes the latest item, as Stack does
Frontier_pop_at_Lifo(f) ==
    IF Len(f.opened) = 0 THEN {}
    ELSE IF f.kind \in {"Queue", "Stack"} THEN {Len(f.opened)}
    ELSE {i \in 1 .. Len(f.opened) :
             \A j \in 1 .. Len(f.opened) :
                 IF f.kind = "MinHeap" THEN f.opened[i].cost <= f.opened[j].cost
                 ELSE f.opened[i].cost >= f.opened[j].cost}

\* The positions of opened that Frontier::pop may take: pop_front for Queue,
\* Vec::pop for Stack, BinaryHeap::pop for the heaps.
Frontier_pop_at(f) ==
    IF Len(f.opened) = 0 THEN {}
    ELSE IF f.kind = "Queue" THEN {1}
    ELSE IF f.kind = "Stack" THEN {Len(f.opened)}
    ELSE IF f.kind = "MinHeap" THEN MinHeap_top(f)
    ELSE MaxHeap_top(f)

\* Option::unwrap_or
unwrap_or(opt, default) == IF opt = None THEN default ELSE CHOOSE x \in opt : TRUE

\* push(node, cost) of a frontier: [result, frontier].  A None node is rejected
\* (MaxHeap::push takes the id itself and returns nothing: result is TRUE);
\* a None cost is 0.0 for the heaps.
Frontier_push_call(f, node, cost) ==
    IF node = None THEN [result |-> FALSE, frontier |-> f]
    ELSE LET id == CHOOSE x \in node : TRUE
         IN  [result |-> f.kind \notin {"Queue", "Stack"} \/ id \notin f.visited,
              frontier |-> Frontier_push(f, id, unwrap_or(cost, 0))]

\* The outcomes of Frontier::pop, [result, frontier, panic].  VecDeque::pop_front
\* and Vec::pop return None on an empty collection; MinHeap::pop and MaxHeap::pop
\* are Some(self.opened.pop().unwrap().1), and unwrap panics on an empty heap.
Frontier_pop(f) ==
    IF Len(f.opened) = 0
        THEN {[result |-> None, frontier |-> f, panic |-> f.kind \notin {"Queue", "Stack"}]}
        ELSE {[result |-> Some(f.opened[i].id),
               frontier |-> [f EXCEPT !.opened = RemoveAt(@, i)],
               panic |-> FALSE] : i \in Frontier_pop_at(f)}

(***************************************************************************)
(* Policies.  A policy is a record tree: leaves [op, ...parameters],       *)
(* Composite::And / Composite::Or as [op, p1, p2], Not as [op, p].  The    *)
(* context is a graph [nodes, edges] at build time and a visitor at        *)
(* termination time; the entity is a node, an edge or a node id.           *)
(***************************************************************************)
AllowAll == [op |-> "AllowAll"]

DenyAll == [op |-> "DenyAll"]

DenyDanglingEdge == [op |-> "DenyDanglingEdge"]

NodeBudget(budget) == [op |-> "NodeBudget", budget |-> budget]

DenyNodeOverride == [op |-> "DenyNodeOverride"]

EdgeBudget(budget) == [op |-> "EdgeBudget", budget |-> budget]

UniqueEdge == [op |-> "UniqueEdge"]

DenyParallelEdge == [op |-> "DenyParallelEdge"]

AllowWeightAbove(threshold) == [op |-> "AllowWeightAbove", threshold |-> threshold]

GoalReached(goal) == [op |-> "GoalReached", goal |-> goal]

NoTermination == [op |-> "NoTermination"]

OpeningExhausted(max_opening) == [op |-> "OpeningExhausted", max_opening |-> max_opening]

And(p1, p2) == [op |-> "And", p1 |-> p1, p2 |-> p2]

Or(p1, p2) == [op |-> "Or", p1 |-> p1, p2 |-> p2]

Not(p) == [op |-> "Not", p |-> p]

\* DenyDanglingEdge::is_compliant
DenyDanglingEdge_is_compliant(entity, context) ==
    entity.from \in DOMAIN context.nodes /\ entity.to \in DOMAIN context.nodes

\* Variant of NodeBudget::is_compliant that still accepts at the budget
NodeBudget_is_compliant_Inclusive(p, context) ==
    Cardinality(DOMAIN context.nodes) <= p.budget

\* NodeBudget::is_compliant
NodeBudget_is_compliant(p, context) == Cardinality(DOMAIN context.nodes) < p.budget

\* DenyNodeOverride::is_compliant
DenyNodeOverride_is_compliant(entity, context) == entity.id \notin DOMAIN context.nodes

\* EdgeBudget::apply
EdgeBudget_is_compliant(p, context) == EdgeCount(context.edges) < p.budget

\* UniqueEdge::apply
UniqueEdge_is_compliant(entity, context) ==
    ~ \E i \in 1 .. Len(EdgesFrom(context.edges, entity.from)) :
          EdgesFrom(context.edges, entity.from)[i].to = entity.to

\* Variant of DenyParallelEdge::is_compliant that compares unordered pairs
DenyParallelEdge_is_compliant_Undirected(entity, context) ==
    ~ \E f \in DOMAIN context.edges : \E i \in 1 .. Len(context.edges[f]) :
          {context.edges[f][i].from, context.edges[f][i].to} = {entity.from, entity.to}

\* DenyParallelEdge::is_compliant
DenyParallelEdge_is_compliant(entity, context) ==
    ~ \E f \in DOMAIN context.edges : \E i \in 1 .. Len(context.edges[f]) :
          /\ context.edges[f][i].from = entity.from
          /\ context.edges[f][i].to = entity.to

\* AllowWeightAbove::apply
AllowWeightAbove_is_compliant(p, entity) == entity.weight > p.threshold

\* GoalReached::is_compliant
GoalReached_is_compliant(p, node_id) == node_id = p.goal

\* OpeningExhausted::is_compliant, with a SimpleVisitor as context:
\* visited_count() is visited.len()
OpeningExhausted_is_compliant(p, context) ==
    Cardinality(DOMAIN context.visited) >= p.max_opening

\* is_compliant of the leaf policies
Leaf_is_compliant(p, entity, context) ==
    CASE p.op = "AllowAll" -> TRUE
      [] p.op = "DenyAll" -> FALSE
      [] p.op = "NoTermination" -> FALSE
      [] p.op = "DenyDanglingEdge" -> DenyDanglingEdge_is_compliant(entity, context)
      [] p.op = "NodeBudget" -> NodeBudget_is_compliant(p, context)
      [] p.op = "DenyNodeOverride" -> DenyNodeOverride_is_compliant(entity, context)
      [] p.op = "AllowWeightAbove" -> AllowWeightAbove_is_compliant(p, entity)
      [] p.op = "GoalReached" -> GoalReached_is_compliant(p, entity)
      [] p.op = "OpeningExhausted" -> OpeningExhausted_is_compliant(p, context)
      [] p.op = "EdgeBudget" -> EdgeBudget_is_compliant(p, context)
      [] p.op = "UniqueEdge" -> UniqueEdge_is_compliant(entity, context)
      [] p.op = "DenyParallelEdge" -> DenyParallelEdge_is_compliant(entity, context)

\* Variant of the And arm that returns what its first operand returned
And_combine_First(r1, r2) == r1

\* Variant of the And arm that is content with one operand
And_combine_Disjunction(r1, r2) == r1 \/ r2

\* And: the && of the two operands
And_combine(r1, r2) == r1 /\ r2

\* Variant of the Or arm that asks for both operands
Or_combine_Conjunction(r1, r2) == r1 /\ r2

\* Or: the || of the two operands
Or_combine(r1, r2) == r1 \/ r2

\* Variant of && and || that always goes on to the second operand
EvaluatesSecond_Always(op, r1) == TRUE

\* Whether && (And) or || (Or) goes on to its second operand after the first
\* returned r1
EvaluatesSecond(op, r1) == IF op = "And" THEN r1 ELSE ~r1

\* Variant of Not::is_compliant that hands on what the inner policy returned
Not_apply_Identity(r) == r

\* Not::is_compliant: the ! of what the inner policy returned
Not_apply(r) == ~r

RECURSIVE Policy_is_compliant(_, _, _)
\* Policy::is_compliant for Composite, Not and the leaves
Policy_is_compliant(p, entity, context) ==
    IF p.op \in {"And", "Or"}
        THEN LET r1 == Policy_is_compliant(p.p1, entity, context)
             IN  IF EvaluatesSecond(p.op, r1)
                     THEN LET r2 == Policy_is_compliant(p.p2, entity, context)
                          IN  IF p.op = "And" THEN And_combine(r1, r2)
                              ELSE Or_combine(r1, r2)
                     ELSE r1
    ELSE IF p.op = "Not" THEN Not_apply(Policy_is_compliant(p.p, entity, context))
    ELSE Leaf_is_compliant(p, entity, context)

(***************************************************************************)
(* Visitors.  A visitor is [kind, terminate, visited, distances, parents,  *)
(* count]: visited is SimpleVisitor's map id -> Option<parent>, distances  *)
(* WeightedVisitor's map id -> distance, count the counter of the tests'   *)
(* LoopCountVisitor.                                                       *)
(***************************************************************************)
Visitor_new(kind, terminate) ==
    [kind |-> kind, terminate |-> terminate, visited |-> EmptyMap,
     distances |-> EmptyMap, parents |-> EmptyMap, count |-> 0]

\* Variant of SimpleVisitor::should_explore in which a later discoverer
\* replaces the recorded parent
Simple_should_explore_LastDiscoverer(v, from, to) ==
    IF to \notin DOMAIN v.visited
        THEN [result |-> TRUE,
              visitor |-> [v EXCEPT !.visited = MapInsert(@, to, Some(from))]]
        ELSE [result |-> FALSE,
              visitor |-> [v EXCEPT !.visited = MapInsert(@, to, Some(from))]]

\* SimpleVisitor::should_explore: [result, the visitor afterwards]
Simple_should_explore(v, from, to) ==
    IF to \notin DOMAIN v.visited
        THEN [result |-> TRUE,
              visitor |-> [v EXCEPT !.visited = MapInsert(@, to, Some(from))]]
        ELSE [result |-> FALSE, visitor |-> v]

\* SimpleVisitor::visit
Simple_visit(v, node_id) ==
    IF node_id \notin DOMAIN v.visited
        THEN [v EXCEPT !.visited = MapInsert(@, node_id, None)]
        ELSE v

\* SimpleVisitor::should_stop
Simple_should_stop(v, node_id) == Policy_is_compliant(v.terminate, node_id, v)

\* TrackParent::get_parent of SimpleVisitor
Simple_get_parent(v, node_id) ==
    IF node_id \in DOMAIN v.visited THEN v.visited[node_id] ELSE None

\* CountVisited::visited_count of SimpleVisitor
Simple_visited_count(v) == Cardinality(DOMAIN v.visited)

\* the weight WeightedVisitor::exploration_cost looks up: the first edge from -> to
\* of the graph, 0.0 when there is none
FirstWeight(es, from, to) ==
    LET out == EdgesFrom(es, from)
        hit == {i \in 1 .. Len(out) : out[i].to = to}
    IN  IF hit = {} THEN 0
        ELSE out[CHOOSE i \in hit : \A j \in hit : i <= j].weight

\* Variant of WeightedVisitor::exploration_cost that leaves out the distance of
\* the source
Weighted_exploration_cost_EdgeOnly(v, from, to, es) == FirstWeight(es, from, to)

\* WeightedVisitor::exploration_cost
Weighted_exploration_cost(v, from, to, es) ==
    LET from_dist == IF from \in DOMAIN v.distances THEN v.distances[from] ELSE 0
    IN  from_dist + FirstWeight(es, from, to)

\* The parent bookkeeping of the WeightedVisitor the integration tests use
\* (get_parent): the source of the edge whose candidate distance was stored.
Weighted_record_parent(v, from, to) == [v EXCEPT !.parents = MapInsert(@, to, from)]

\* Variant of WeightedVisitor::should_explore that stores every candidate
Weighted_should_explore_Unconditional(v, from, to, es) ==
    LET new_dist == Weighted_exploration_cost(v, from, to, es)
        stored == [v EXCEPT !.distances = MapInsert(@, to, new_dist)]
    IN  [result |-> TRUE, visitor |-> Weighted_record_parent(stored, from, to)]

\* Variant of WeightedVisitor::should_explore that never relaxes a known distance
Weighted_should_explore_NoRelax(v, from, to, es) ==
    LET new_dist == Weighted_exploration_cost(v, from, to, es)
        stored == [v EXCEPT !.distances = MapInsert(@, to, new_dist)]
    IN  IF to \notin DOMAIN v.distances
            THEN [result |-> TRUE, visitor |-> Weighted_record_parent(stored, from, to)]
        ELSE [result |-> FALSE, visitor |-> v]

\* Variant of WeightedVisitor::should_explore that also stores an equal candidate
Weighted_should_explore_NonStrict(v, from, to, es) ==
    LET new_dist == Weighted_exploration_cost(v, from, to, es)
        stored == [v EXCEPT !.distances = MapInsert(@, to, new_dist)]
    IN  IF to \notin DOMAIN v.distances
            THEN [result |-> TRUE, visitor |-> Weighted_record_parent(stored, from, to)]
        ELSE IF new_dist <= v.distances[to]
            THEN [result |-> TRUE, visitor |-> Weighted_record_parent(stored, from, to)]
        ELSE [result |-> FALSE, visitor |-> v]

\* WeightedVisitor::should_explore: [result, the visitor afterwards]
Weighted_should_explore(v, from, to, es) ==
    LET new_dist == Weighted_exploration_cost(v, from, to, es)
        stored == [v EXCEPT !.distances = MapInsert(@, to, new_dist)]
    IN  IF to \notin DOMAIN v.distances
            THEN [result |-> TRUE, visitor |-> Weighted_record_parent(stored, from, to)]
        ELSE IF new_dist < v.distances[to]
            THEN [result |-> TRUE, visitor |-> Weighted_record_parent(stored, from, to)]
        ELSE [result |-> FALSE, visitor |-> v]

\* WeightedVisitor::visit
Weighted_visit(v, node_id) ==
    IF node_id \notin DOMAIN v.distances
        THEN [v EXCEPT !.distances = MapInsert(@, node_id, 0)]
        ELSE v

\* should_stop of the WeightedVisitor built with a termination policy;
\* the WeightedVisitor of src/ keeps Visitor::should_stop's default, which is
\* the NoTermination case
Weighted_should_stop(v, node_id) == Policy_is_compliant(v.terminate, node_id, v)

\* get_parent of the WeightedVisitor the integration tests use
Weighted_get_parent(v, node_id) ==
    IF node_id \in DOMAIN v.parents THEN Some(v.parents[node_id]) ELSE None

\* The count at which the tests' LoopCountVisitor stops
LoopCountStop == 3

\* Visitor::init_cost (default)
Visitor_init_cost(v, start, es) == 0

\* Visitor::should_explore, by visitor kind; LoopCountVisitor,
\* TerminateFirstVisitor, NeverTerminateVisitor and ExploreAllVisitor explore
\* every edge, ExploreNoneVisitor none
Visitor_should_explore(v, from, to, es) ==
    IF v.kind = "Simple" THEN Simple_should_explore(v, from, to)
    ELSE IF v.kind = "Weighted" THEN Weighted_should_explore(v, from, to, es)
    ELSE [result |-> v.kind # "ExploreNone", visitor |-> v]

\* Visitor::exploration_cost, by visitor kind (default 1.0)
Visitor_exploration_cost(v, from, to, es) ==
    IF v.kind = "Weighted" THEN Weighted_exploration_cost(v, from, to, es) ELSE 1

\* Visitor::visit, by visitor kind; LoopCountVisitor counts, the visit of
\* TerminateFirstVisitor and NeverTerminateVisitor is empty
Visitor_visit(v, node_id) ==
    IF v.kind = "Simple" THEN Simple_visit(v, node_id)
    ELSE IF v.kind = "Weighted" THEN Weighted_visit(v, node_id)
    ELSE IF v.kind = "LoopCount" THEN [v EXCEPT !.count = @ + 1]
    ELSE v

\* Visitor::should_stop, by visitor kind; LoopCountVisitor stops at its third
\* visit, TerminateFirstVisitor, ExploreAllVisitor and ExploreNoneVisitor
\* always, NeverTerminateVisitor never
Visitor_should_stop(v, node_id) ==
    IF v.kind = "Simple" THEN Simple_should_stop(v, node_id)
    ELSE IF v.kind = "Weighted" THEN Weighted_should_stop(v, node_id)
    ELSE IF v.kind = "LoopCount" THEN v.count = LoopCountStop
    ELSE v.kind \in {"TerminateFirst", "ExploreAll", "ExploreNone"}

(***************************************************************************)
(* Samplers and GraphBuilder::build.  A sample is [nodes, edges]; the      *)
(* preset samplers keep one counter (current_id, here sampler_id).        *)
(***************************************************************************)
EmptyNode(id) == [id |-> id, data |-> None]

\* AdjacencyListSampler::next: context is a Vec<Vec<u32>>
AdjacencyListSampler_next(sampler_id, context) ==
    IF sampler_id >= Len(context) THEN None
    ELSE LET adj == context[sampler_id + 1]
         IN  Some([nodes |-> <<EmptyNode(sampler_id)>>,
                   edges |-> [k \in 1 .. Len(adj) |-> UnweightedEdge(sampler_id, adj[k])]])

RECURSIVE MatrixRowEdges(_, _, _)
\* the filter_map over one row of a WeightedMatrix, from column j on
MatrixRowEdges(sampler_id, row, j) ==
    IF j > Len(row) THEN <<>>
    ELSE (IF row[j] = None THEN <<>>
          ELSE <<WeightedEdge(sampler_id, j - 1, CHOOSE w \in row[j] : TRUE)>>)
         \o MatrixRowEdges(sampler_id, row, j + 1)

\* WeightedMatrixSampler::next: context is a Vec<Vec<Option<f64>>>
WeightedMatrixSampler_next(sampler_id, context) ==
    IF sampler_id >= Len(context) THEN None
    ELSE Some([nodes |-> <<EmptyNode(sampler_id)>>,
               edges |-> MatrixRowEdges(sampler_id, context[sampler_id + 1], 1)])

\* Sampler::next of the preset samplers
Sampler_next(kind, sampler_id, context) ==
    IF kind = "AdjacencyList" THEN AdjacencyListSampler_next(sampler_id, context)
    ELSE WeightedMatrixSampler_next(sampler_id, context)

\* build, the body of `for node in nodes`: the node policy on the graph so far,
\* then add_node
AdmitNode(node_policy, g, node) ==
    IF Policy_is_compliant(node_policy, node, g)
        THEN [g EXCEPT !.nodes = add_node(@, node.id, node.data)]
        ELSE g

\* build, the body of `for edge in edges_buffer`: the edge policy on the graph so
\* far, then add_edge
AdmitEdge(edge_policy, g, edge) ==
    IF Policy_is_compliant(edge_policy, edge, g)
        THEN [g EXCEPT !.edges = add_edge(@, edge)]
        ELSE g

RECURSIVE AdmitNodes(_, _, _, _)
AdmitNodes(node_policy, g, ns, k) ==
    IF k > Len(ns) THEN g
    ELSE AdmitNodes(node_policy, AdmitNode(node_policy, g, ns[k]), ns, k + 1)

RECURSIVE AdmitEdges(_, _, _, _)
AdmitEdges(edge_policy, g, buffer, k) ==
    IF k > Len(buffer) THEN g
    ELSE AdmitEdges(edge_policy, AdmitEdge(edge_policy, g, buffer[k]), buffer, k + 1)

\* Graph::new
Graph_new == [nodes |-> EmptyMap, edges |-> EmptyMap]

RECURSIVE build_sampling(_, _, _, _, _, _)
\* build, the `while let Some((nodes, edges)) = next(context)` loop:
\* [graph, edges_buffer] when the sampler returns None
build_sampling(node_policy, kind, sampler_id, context, g, buffer) ==
    LET sample == Sampler_next(kind, sampler_id, context)
    IN  IF sample = None THEN [graph |-> g, buffer |-> buffer]
        ELSE LET smp == CHOOSE x \in sample : TRUE
             IN  build_sampling(node_policy, kind, sampler_id + 1, context,
                                AdmitNodes(node_policy, g, smp.nodes, 1),
                                buffer \o smp.edges)

\* GraphBuilder::new(edge_policy, node_policy, sampler).build(context)
build(edge_policy, node_policy, kind, context) ==
    LET sampled == build_sampling(node_policy, kind, 0, context, Graph_new, <<>>)
    IN  AdmitEdges(edge_policy, sampled.graph, sampled.buffer, 1)

(***************************************************************************)
(* The traversals modelled. cfg names the graph and the arguments of      *)
(* Graph::traverse: the start id, the kind of frontier and the visitor.    *)
(* The named graphs are those of the integration tests; an "Any" cfg       *)
(* starts from a graph holding the nodes Ids and no edge, to which         *)
(* add_edge is applied up to MaxEdges times before the traversal.          *)
(***************************************************************************)
N == None

\* tests/end_to_end.rs, bfs::solves_linear_graph
LinearContext == <<<<1>>, <<2>>, <<3>>, <<>>>>

\* a leaf (1) is dequeued before the node (2) that leads to the goal (3)
LeafFirstContext == <<<<1, 2>>, <<>>, <<3>>, <<>>>>

\* tests/end_to_end.rs, bfs::solves_cyclic_graph
CyclicContext == <<<<1, 2>>, <<0, 3>>, <<0, 3>>, <<1, 2>>>>

\* tests/end_to_end.rs, dfs::solves_multiple_path
MultiplePathContext == <<<<1, 2, 3>>, <<4>>, <<5>>, <<6>>, <<7>>, <<7>>, <<7>>, <<>>>>

\* tests/end_to_end.rs, dijkstra::solves_simple_lightest_path
LightestPathContext ==
    << <<N, {1}, N, N, {10}>>,
       <<{1}, N, {2}, N, N>>,
       <<N, {2}, N, {3}, N>>,
       <<N, N, {3}, N, {1}>>,
       <<{10}, N, N, {1}, N>> >>

RECURSIVE AddNodes(_, _)
\* add_node(EmptyNode::new(i, None)) for every i of ids
AddNodes(ns, ids) ==
    IF ids = {} THEN ns
    ELSE LET i == CHOOSE x \in ids : TRUE
         IN  AddNodes(add_node(ns, i, None), ids \ {i})

\* tests/graph_integration.rs: nodes 0, 1, 2 and the edges 0 -> 1, 0 -> 2
FanGraph ==
    [nodes |-> AddNodes(EmptyMap, {0, 1, 2}),
     edges |-> add_edge(add_edge(EmptyMap, UnweightedEdge(0, 1)), UnweightedEdge(0, 2))]

\* nodes 0, 1, 2, two parallel edges 0 -> 1 of weights 5 and 2, and 1 -> 2
ParallelGraph ==
    [nodes |-> AddNodes(EmptyMap, {0, 1, 2}),
     edges |-> add_edge(add_edge(add_edge(EmptyMap, WeightedEdge(0, 1, 5)),
                                 WeightedEdge(0, 1, 2)),
                        WeightedEdge(1, 2, 1))]

AdjacencyGraph(context) == build(DenyDanglingEdge, AllowAll, "AdjacencyList", context)

MatrixGraph(context) ==
    build(And(DenyDanglingEdge, AllowWeightAbove(0)), AllowAll, "WeightedMatrix", context)

Config(name, fkind, vkind, terminate) ==
    [name |-> name, start |-> 0, fkind |-> fkind, vkind |-> vkind, terminate |-> terminate]

Configs ==
    {Config("Fan", "Queue", "LoopCount", NoTermination),
     Config("Linear", "Queue", "Simple", GoalReached(3)),
     Config("LeafFirst", "Queue", "Simple", GoalReached(3)),
     Config("MultiplePath", "Stack", "Simple", GoalReached(7)),
     Config("LightestPath", "MinHeap", "Weighted", GoalReached(3)),
     Config("LightestPath", "MinHeap", "Weighted", NoTermination),
     Config("Parallel", "MinHeap", "Weighted", NoTermination),
     Config("Cyclic", "Queue", "Simple", GoalReached(3))}
    \cup {Config("Any", fk, "Simple", GoalReached(g)) :
            fk \in {"Queue", "Stack"}, g \in Ids}
    \cup {Config("Any", "Queue", "LoopCount", NoTermination)}
    \cup {Config("Any", fk, vk, NoTermination) :
            fk \in {"Queue", "Stack"}, vk \in {"TerminateFirst", "NeverTerminate"}}
    \cup {Config("Any", fk, "Weighted", NoTermination) : fk \in {"MinHeap", "MaxHeap"}}
    \cup {Config("Any", "Queue", "Simple", OpeningExhausted(n)) : n \in 1 .. 2}

InitialGraph(name) ==
    CASE name = "Fan" -> FanGraph
      [] name = "Linear" -> AdjacencyGraph(LinearContext)
      [] name = "LeafFirst" -> AdjacencyGraph(LeafFirstContext)
      [] name = "MultiplePath" -> AdjacencyGraph(MultiplePathContext)
      [] name = "LightestPath" -> MatrixGraph(LightestPathContext)
      [] name = "Parallel" -> ParallelGraph
      [] name = "Cyclic" -> AdjacencyGraph(CyclicContext)
      [] name = "Any" -> [nodes |-> AddNodes(EmptyMap, Ids), edges |-> EmptyMap]

\* one entry of log: the call, its arguments and what it returned
Call(call, a, b, r) == [call |-> call, a |-> a, b |-> b, r |-> r]

\* the variables an operation does not use keep these values
IdleBuild ==
    /\ sampler = [count |-> 0, issued |-> 0]
    /\ pending = [nodes |-> <<>>, edges |-> <<>>]
    /\ edges_buffer = <<>>

IdlePolicy ==
    /\ policy = AllowAll
    /\ ghost = EmptyMap

Init ==
    /\ cfg \in Configs
    /\ nodes = InitialGraph(cfg.name).nodes
    /\ edges = InitialGraph(cfg.name).edges
    /\ pc = IF cfg.name = "Any" THEN "setup" ELSE "ready"
    /\ frontier = Frontier_new(cfg.fkind)
    /\ visitor = Visitor_new(cfg.vkind, cfg.terminate)
    /\ current_id = 0
    /\ idx = 0
    /\ log = <<>>
    /\ IdleBuild
    /\ IdlePolicy

\* Graph::add_edge, called by the owner of the graph before the traversal.
\* Edges are added by nondecreasing source: add_edge calls on different sources
\* commute, so every edge map of at most MaxEdges edges is reached.
AddEdge(from, to) ==
    /\ pc = "setup"
    /\ EdgeCount(edges) < MaxEdges
    /\ \A f \in DOMAIN edges : f <= from
    /\ edges' = add_edge(edges, UnweightedEdge(from, to))
    /\ UNCHANGED <<nodes, pc, cfg, frontier, visitor, current_id, idx, log, buildVars, policyVars>>

\* traverse, line 105: frontier.push(start, Some(visitor.init_cost(start, &self)))
TraverseStart ==
    /\ pc \in {"setup", "ready"}
    /\ LET cost == Visitor_init_cost(visitor, cfg.start, edges)
       IN  /\ frontier' = Frontier_push(frontier, cfg.start, cost)
           /\ log' = log \o <<Call("init_cost", cfg.start, 0, cost),
                              Call("push", cfg.start, cost, FALSE)>>
    /\ pc' = "loop"
    /\ UNCHANGED <<nodes, edges, cfg, visitor, current_id, idx, buildVars, policyVars>>

\* Variant of line 107 in which the loop body is entered whatever is_empty
\* returned
LoopTest_Unguarded ==
    /\ pc = "loop"
    /\ log' = Append(log, Call("is_empty", 0, 0, Frontier_is_empty(frontier)))
    /\ pc' = "pop"
    /\ UNCHANGED <<nodes, edges, cfg, frontier, visitor, current_id, idx, buildVars, policyVars>>

\* traverse, line 107: while !frontier.is_empty()
LoopTest ==
    /\ pc = "loop"
    /\ log' = Append(log, Call("is_empty", 0, 0, Frontier_is_empty(frontier)))
    /\ pc' = IF Frontier_is_empty(frontier) THEN "done" ELSE "pop"
    /\ UNCHANGED <<nodes, edges, cfg, frontier, visitor, current_id, idx, buildVars, policyVars>>

\* traverse, lines 108-111: match frontier.pop() { Some(current_id) => current_id,
\* None => break }; a panic of pop unwinds out of traverse
Pop ==
    /\ pc = "pop"
    /\ \E popped \in Frontier_pop(frontier) :
        /\ current_id' = unwrap_or(popped.result, current_id)
        /\ frontier' = popped.frontier
        /\ log' = Append(log, Call("pop", unwrap_or(popped.result, 0), 0,
                                   popped.result # None))
        /\ pc' = IF popped.panic THEN "panicked"
                 ELSE IF popped.result = None THEN "done" ELSE "lookup"
    /\ UNCHANGED <<nodes, edges, cfg, visitor, idx, buildVars, policyVars>>

\* Variant of the adjacency lookup that treats a missing entry as an empty
\* edge list: the iteration visits, tests should_stop and the loop goes on
Lookup_MissingIsEmpty ==
    /\ pc = "lookup"
    /\ IF current_id \in DOMAIN edges
          THEN pc' = "edges" /\ idx' = 1 /\ UNCHANGED <<visitor, log>>
          ELSE /\ visitor' = Visitor_visit(visitor, current_id)
               /\ log' = Append(log, Call("visit", current_id, 0, FALSE))
               /\ pc' = "stop"
               /\ idx' = idx
    /\ UNCHANGED <<nodes, edges, cfg, frontier, current_id, buildVars, policyVars>>

\* traverse, lines 113-116: self.edges.get(&current_id), None => break
Lookup ==
    /\ pc = "lookup"
    /\ IF current_id \in DOMAIN edges
          THEN pc' = "edges" /\ idx' = 1
          ELSE pc' = "done" /\ idx' = idx
    /\ UNCHANGED <<nodes, edges, cfg, frontier, visitor, current_id, log, buildVars, policyVars>>

\* traverse, lines 118-125: one turn of `for edge in edges`
Explore ==
    /\ pc = "edges"
    /\ idx <= Len(edges[current_id])
    /\ LET edge == edges[current_id][idx]
           asked == Visitor_should_explore(visitor, edge.from, edge.to, edges)
           cost == Visitor_exploration_cost(asked.visitor, edge.from, edge.to, edges)
           ask == Call("should_explore", edge.from, edge.to, asked.result)
       IN  /\ visitor' = asked.visitor
           /\ IF asked.result
                 THEN /\ frontier' = Frontier_push(frontier, edge.to, cost)
                      /\ log' = log \o <<ask,
                                         Call("exploration_cost", edge.from, edge.to, cost),
                                         Call("push", edge.to, cost, FALSE)>>
                 ELSE /\ frontier' = frontier
                      /\ log' = Append(log, ask)
    /\ idx' = idx + 1
    /\ UNCHANGED <<nodes, edges, pc, cfg, current_id, buildVars, policyVars>>

\* Variant of line 127 in which visit may run before the last edge was processed
Visit_BeforeLastEdge ==
    /\ pc = "edges"
    /\ idx >= Len(edges[current_id])
    /\ visitor' = Visitor_visit(visitor, current_id)
    /\ log' = Append(log, Call("visit", current_id, 0, FALSE))
    /\ pc' = "stop"
    /\ UNCHANGED <<nodes, edges, cfg, frontier, current_id, idx, buildVars, policyVars>>

\* traverse, line 127: visitor.visit(current_id, &self)
Visit ==
    /\ pc = "edges"
    /\ idx > Len(edges[current_id])
    /\ visitor' = Visitor_visit(visitor, current_id)
    /\ log' = Append(log, Call("visit", current_id, 0, FALSE))
    /\ pc' = "stop"
    /\ UNCHANGED <<nodes, edges, cfg, frontier, current_id, idx, buildVars, policyVars>>

\* Variant of lines 129-131 in which the loop goes on after should_stop
\* returned true
Stop_KeepsLooping ==
    /\ pc = "stop"
    /\ log' = Append(log, Call("should_stop", current_id, 0,
                               Visitor_should_stop(visitor, current_id)))
    /\ pc' = "loop"
    /\ UNCHANGED <<nodes, edges, cfg, frontier, visitor, current_id, idx, buildVars, policyVars>>

\* traverse, lines 129-131: if visitor.should_stop(current_id, &self) { break }
Stop ==
    /\ pc = "stop"
    /\ log' = Append(log, Call("should_stop", current_id, 0,
                               Visitor_should_stop(visitor, current_id)))
    /\ pc' = IF Visitor_should_stop(visitor, current_id) THEN "done" ELSE "loop"
    /\ UNCHANGED <<nodes, edges, cfg, frontier, visitor, current_id, idx, buildVars, policyVars>>

Next ==
    \/ \E from \in Ids, to \in Ids : AddEdge(from, to)
    \/ TraverseStart
    \/ LoopTest
    \/ Pop
    \/ Lookup
    \/ Explore
    \/ Visit
    \/ Stop

Spec == Init /\ [][Next]_vars

(***************************************************************************)
(* Two traversals in a row from the same start node on one frontier, each  *)
(* with a visitor of its own that stops at the first visit, on any graph   *)
(* of at most MaxEdges edges.  ghost holds the number of the traversal     *)
(* under way and the frontier the first traversal left behind.             *)
(***************************************************************************)
InitReuse ==
    /\ \E fk \in FrontierKinds, first \in {"ExploreNone", "ExploreAll"} :
          cfg = [name |-> "Reuse", start |-> 0, fkind |-> fk,
                 first |-> first, second |-> "ExploreAll"]
    /\ nodes = AddNodes(EmptyMap, Ids)
    /\ edges = EmptyMap
    /\ pc = "setup"
    /\ frontier = Frontier_new(cfg.fkind)
    /\ visitor = Visitor_new(cfg.first, NoTermination)
    /\ current_id = 0
    /\ idx = 0
    /\ log = <<>>
    /\ IdleBuild
    /\ policy = AllowAll
    /\ ghost = [round |-> 1, between |-> frontier]

\* the first traverse has returned; the caller hands the same frontier and
\* the second visitor to the next traverse
TraverseAgain ==
    /\ cfg.name = "Reuse"
    /\ pc = "done"
    /\ ghost.round = 1
    /\ visitor' = Visitor_new(cfg.second, NoTermination)
    /\ ghost' = [round |-> 2, between |-> frontier]
    /\ pc' = "ready"
    /\ UNCHANGED <<nodes, edges, cfg, frontier, current_id, idx, log, buildVars, policy>>

NextReuse ==
    \/ \E from \in Ids, to \in Ids : AddEdge(from, to)
    \/ TraverseStart
    \/ LoopTest
    \/ Pop
    \/ Lookup
    \/ Explore
    \/ Visit
    \/ Stop
    \/ TraverseAgain

SpecReuse == InitReuse /\ [][NextReuse]_vars

(***************************************************************************)
(* One traversal run to its end: traverse is a sequential function, so     *)
(* once the owner of the graph calls it each of its steps is taken as soon *)
(* as it is the next one.  The graph is any graph of at most MaxEdges      *)
(* edges; under a WeightedVisitor its edges weigh nothing, one or three,   *)
(* or the graph is the one of dijkstra::solves_simple_lightest_path.       *)
(***************************************************************************)
InitTerminate ==
    /\ cfg \in {Config("Any", fk, vk, NoTermination) :
                  fk \in {"Queue", "Stack"},
                  vk \in {"NeverTerminate", "TerminateFirst", "LoopCount", "Simple"}}
             \cup {Config(name, "MinHeap", "Weighted", NoTermination) :
                      name \in {"Any", "LightestPath"}}
    /\ nodes = InitialGraph(cfg.name).nodes
    /\ edges = InitialGraph(cfg.name).edges
    /\ pc = IF cfg.name = "Any" THEN "setup" ELSE "ready"
    /\ frontier = Frontier_new(cfg.fkind)
    /\ visitor = Visitor_new(cfg.vkind, cfg.terminate)
    /\ current_id = 0
    /\ idx = 0
    /\ log = <<>>
    /\ IdleBuild
    /\ IdlePolicy

\* Graph::add_edge with a weighted edge, called by the owner of the graph
\* before the traversal; the weight matters to a WeightedVisitor only
AddWeightedEdge(from, to, weight) ==
    /\ pc = "setup"
    /\ EdgeCount(edges) < MaxEdges
    /\ \A f \in DOMAIN edges : f <= from
    /\ cfg.vkind # "Weighted" => weight = DefaultWeight
    /\ edges' = add_edge(edges, WeightedEdge(from, to, weight))
    /\ UNCHANGED <<nodes, pc, cfg, frontier, visitor, current_id, idx, log, buildVars, policyVars>>

\* the steps of Graph::traverse
TraverseStep ==
    \/ TraverseStart
    \/ LoopTest
    \/ Pop
    \/ Lookup
    \/ Explore
    \/ Visit
    \/ Stop

NextTerminate ==
    \/ \E from \in Ids, to \in Ids, weight \in {0, 1, 3} : AddWeightedEdge(from, to, weight)
    \/ TraverseStep

SpecTerminate == InitTerminate /\ [][NextTerminate]_vars /\ WF_vars(TraverseStep)

(***************************************************************************)
(* GraphBuilder::build, step by step.  cfg holds the two policies of the   *)
(* builder.  The sampler is any Sampler: each call of next returns None or *)
(* a sample of at most two nodes and at most one edge over the ids 0 and   *)
(* 1, and it returns None at the latest after MaxSamples samples.          *)
(* Each candidate node carries a payload of its own (the number of nodes   *)
(* the sampler issued before it), so that two candidates of one id differ. *)
(* ghost records what happened: the edges sampled, the candidates the node *)
(* policy admitted, the number of edge-policy evaluations, whether next    *)
(* has returned None, the candidate nodes sampled, and the number of       *)
(* node-policy evaluations.                                                *)
(***************************************************************************)
BuildIds == {0, 1}

SeqsUpTo(S, n) == UNION {[1 .. k -> S] : k \in 0 .. n}

BuildConfigs ==
    {[name |-> "Build", node_policy |-> np, edge_policy |-> ep] :
        np \in {AllowAll, NodeBudget(1), DenyNodeOverride},
        ep \in {DenyDanglingEdge, AllowAll}}
    \cup {[name |-> "Build", node_policy |-> DenyAll, edge_policy |-> AllowAll],
          [name |-> "Build", node_policy |-> AllowAll, edge_policy |-> DenyAll],
          [name |-> "Build", node_policy |-> AllowAll, edge_policy |-> EdgeBudget(1)],
          [name |-> "Build", node_policy |-> AllowAll, edge_policy |-> DenyParallelEdge]}

\* the weights of the sampled edges: the default weight, and in the builds
\* with DenyParallelEdge a second one, which tells parallel edges apart
SampleWeights ==
    IF cfg.edge_policy = DenyParallelEdge THEN {DefaultWeight, DefaultWeight + 1}
    ELSE {DefaultWeight}

\* the samples a Sampler may return when it has issued `issued` nodes so far
Samples(issued) ==
    {[nodes |-> [k \in 1 .. Len(ids) |-> [id |-> ids[k], data |-> Some(issued + k)]],
      edges |-> [k \in 1 .. Len(ends) |->
                    WeightedEdge(ends[k][1], ends[k][2], ends[k][3])]] :
        ids \in SeqsUpTo(BuildIds, 2),
        ends \in SeqsUpTo(BuildIds \X BuildIds \X SampleWeights, 1)}

InitBuild ==
    /\ cfg \in BuildConfigs
    /\ nodes = Graph_new.nodes
    /\ edges = Graph_new.edges
    /\ pc = "b_next"
    /\ frontier = Frontier_new("Queue")
    /\ visitor = Visitor_new("Simple", NoTermination)
    /\ current_id = 0
    /\ idx = 0
    /\ log = <<>>
    /\ IdleBuild
    /\ policy = AllowAll
    /\ ghost = [sampled |-> <<>>, admitted |-> <<>>, edge_evals |-> 0, exhausted |-> FALSE,
                candidates |-> <<>>, node_evals |-> 0]

travVars == <<frontier, visitor, current_id, log, policy>>

\* build, line 75: `while let Some((nodes, edges)) = self.sample_strategy.next(context)`,
\* the Some arm
SampleSome ==
    /\ pc = "b_next"
    /\ sampler.count < MaxSamples
    /\ \E sample \in Samples(sampler.issued) :
          /\ pending' = sample
          /\ sampler' = [count |-> sampler.count + 1,
                         issued |-> sampler.issued + Len(sample.nodes)]
          /\ ghost' = [ghost EXCEPT !.sampled =
                          @ \o [k \in 1 .. Len(sample.edges) |->
                                   [edge |-> sample.edges[k], sample |-> sampler.count + 1]],
                                    !.candidates = @ \o sample.nodes]
    /\ pc' = "b_node"
    /\ UNCHANGED <<nodes, edges, cfg, idx, edges_buffer, travVars>>

\* build, line 75, the None arm: the sampling pass is over, the loop over
\* edges_buffer starts
SampleNone ==
    /\ pc = "b_next"
    /\ ghost' = [ghost EXCEPT !.exhausted = TRUE]
    /\ pc' = "b_edge"
    /\ idx' = 1
    /\ UNCHANGED <<nodes, edges, cfg, sampler, pending, edges_buffer, travVars>>

\* Variant of lines 77-80 that inserts the candidate before asking the policy
EvalNode_InsertFirst ==
    /\ pc = "b_node"
    /\ pending.nodes # <<>>
    /\ LET node == Head(pending.nodes)
           g == [nodes |-> add_node(nodes, node.id, node.data), edges |-> edges]
       IN  /\ nodes' = g.nodes
           /\ IF Policy_is_compliant(cfg.node_policy, node, g)
                 THEN ghost' = [ghost EXCEPT !.admitted =
                                   Append(@, [node |-> node, sample |-> sampler.count]),
                                             !.node_evals = @ + 1]
                 ELSE ghost' = [ghost EXCEPT !.node_evals = @ + 1]
    /\ pending' = [pending EXCEPT !.nodes = Tail(@)]
    /\ UNCHANGED <<edges, pc, cfg, idx, sampler, edges_buffer, travVars>>

\* Variant of lines 76-80 in which a rejected node takes the edges of its
\* sample that touch it along
EvalNode_RejectDropsEdges ==
    /\ pc = "b_node"
    /\ pending.nodes # <<>>
    /\ LET node == Head(pending.nodes)
           kept == SelectSeq(pending.edges,
                             LAMBDA e : e.from # node.id /\ e.to # node.id)
       IN  IF Policy_is_compliant(cfg.node_policy, node, [nodes |-> nodes, edges |-> edges])
              THEN /\ pc' = "b_add_node"
                   /\ pending' = pending
                   /\ ghost' = [ghost EXCEPT !.admitted =
                                   Append(@, [node |-> node, sample |-> sampler.count]),
                                             !.node_evals = @ + 1]
              ELSE /\ pc' = "b_node"
                   /\ pending' = [nodes |-> Tail(pending.nodes), edges |-> kept]
                   /\ ghost' = [ghost EXCEPT !.node_evals = @ + 1]
    /\ UNCHANGED <<nodes, edges, cfg, idx, sampler, edges_buffer, travVars>>

\* build, lines 76-78: the next node of the sample, and
\* `self.auth_node_policy.apply(&node, &graph)` on the graph as it is now
EvalNode ==
    /\ pc = "b_node"
    /\ pending.nodes # <<>>
    /\ LET node == Head(pending.nodes)
       IN  IF Policy_is_compliant(cfg.node_policy, node, [nodes |-> nodes, edges |-> edges])
              THEN /\ pc' = "b_add_node"
                   /\ pending' = pending
                   /\ ghost' = [ghost EXCEPT !.admitted =
                                   Append(@, [node |-> node, sample |-> sampler.count]),
                                             !.node_evals = @ + 1]
              ELSE /\ pc' = "b_node"
                   /\ pending' = [pending EXCEPT !.nodes = Tail(@)]
                   /\ ghost' = [ghost EXCEPT !.node_evals = @ + 1]
    /\ UNCHANGED <<nodes, edges, cfg, idx, sampler, edges_buffer, travVars>>

\* build, line 79: graph.add_node(node)
AddNode ==
    /\ pc = "b_add_node"
    /\ nodes' = add_node(nodes, Head(pending.nodes).id, Head(pending.nodes).data)
    /\ pending' = [pending EXCEPT !.nodes = Tail(@)]
    /\ pc' = "b_node"
    /\ UNCHANGED <<edges, cfg, idx, sampler, edges_buffer, ghost, travVars>>

\* Variant of line 82 that runs the edge policy on the sample's edges at once
\* instead of buffering them
ExtendBuffer_Eager ==
    /\ pc = "b_node"
    /\ pending.nodes = <<>>
    /\ edges' = AdmitEdges(cfg.edge_policy, [nodes |-> nodes, edges |-> edges],
                           pending.edges, 1).edges
    /\ ghost' = [ghost EXCEPT !.edge_evals = @ + Len(pending.edges)]
    /\ pending' = [pending EXCEPT !.edges = <<>>]
    /\ pc' = "b_next"
    /\ UNCHANGED <<nodes, cfg, idx, sampler, edges_buffer, travVars>>

\* Variant of line 82 that keeps only the edges of the latest sample
ExtendBuffer_Replace ==
    /\ pc = "b_node"
    /\ pending.nodes = <<>>
    /\ edges_buffer' = pending.edges
    /\ pending' = [pending EXCEPT !.edges = <<>>]
    /\ pc' = "b_next"
    /\ UNCHANGED <<nodes, edges, cfg, idx, sampler, ghost, travVars>>

\* build, line 82: edges_buffer.extend(edges), once the sample's nodes are done
ExtendBuffer ==
    /\ pc = "b_node"
    /\ pending.nodes = <<>>
    /\ edges_buffer' = edges_buffer \o pending.edges
    /\ pending' = [pending EXCEPT !.edges = <<>>]
    /\ pc' = "b_next"
    /\ UNCHANGED <<nodes, edges, cfg, idx, sampler, ghost, travVars>>

\* build, lines 85-86: the next edge of edges_buffer, and
\* `self.auth_edge_policy.apply(&edge, &graph)` on the graph as it is now
EvalEdge ==
    /\ pc = "b_edge"
    /\ idx <= Len(edges_buffer)
    /\ ghost' = [ghost EXCEPT !.edge_evals = @ + 1]
    /\ IF Policy_is_compliant(cfg.edge_policy, edges_buffer[idx],
                              [nodes |-> nodes, edges |-> edges])
          THEN pc' = "b_add_edge" /\ idx' = idx
          ELSE pc' = "b_edge" /\ idx' = idx + 1
    /\ UNCHANGED <<nodes, edges, cfg, sampler, pending, edges_buffer, travVars>>

\* build, line 87: graph.add_edge(edge)
AddBufferedEdge ==
    /\ pc = "b_add_edge"
    /\ edges' = add_edge(edges, edges_buffer[idx])
    /\ idx' = idx + 1
    /\ pc' = "b_edge"
    /\ UNCHANGED <<nodes, cfg, sampler, pending, edges_buffer, ghost, travVars>>

\* build, line 91: the graph is returned
BuildReturn ==
    /\ pc = "b_edge"
    /\ idx > Len(edges_buffer)
    /\ pc' = "b_done"
    /\ UNCHANGED <<nodes, edges, cfg, idx, sampler, pending, edges_buffer, ghost, travVars>>

NextBuild ==
    \/ SampleSome
    \/ SampleNone
    \/ EvalNode
    \/ AddNode
    \/ ExtendBuffer
    \/ EvalEdge
    \/ AddBufferedEdge
    \/ BuildReturn

SpecBuild == InitBuild /\ [][NextBuild]_vars

(***************************************************************************)
(* Evaluating a Composite, with the calls it makes.  The three traits      *)
(* (Authorize::add, Policy::is_compliant, Terminate::stop) have one        *)
(* Composite implementation each.  An evaluation returns [result, policy,  *)
(* calls]: the policy with the state it carries afterwards, and one entry  *)
(* [path, result] per policy invoked, in order of return; the path of an   *)
(* operand is the path of its composite followed by 1 or 2, the path of    *)
(* the policy evaluated is <<>>.                                           *)
(***************************************************************************)
AuthBudget(budget) == [op |-> "AuthBudget", budget |-> budget]

\* the AlwaysTrue and AlwaysFalse policies of the composite tests
AlwaysTrue == [op |-> "AlwaysTrue"]

AlwaysFalse == [op |-> "AlwaysFalse"]

Invoked(path, result) == [path |-> path, result |-> result]

\* Variant of AuthBudget::add that accepts without spending the budget
AuthBudget_add_NoDecrement(p) ==
    IF p.budget > 0
        THEN [result |-> TRUE, policy |-> p]
        ELSE [result |-> FALSE, policy |-> p]

\* AuthBudget::add
AuthBudget_add(p) ==
    IF p.budget > 0
        THEN [result |-> TRUE, policy |-> [p EXCEPT !.budget = @ - 1]]
        ELSE [result |-> FALSE, policy |-> p]

RECURSIVE Authorize_add(_, _)
\* Authorize::add for Composite and AuthBudget
Authorize_add(p, path) ==
    IF p.op \in {"And", "Or"}
        THEN LET a1 == Authorize_add(p.p1, Append(path, 1))
             IN  IF EvaluatesSecond(p.op, a1.result)
                     THEN LET a2 == Authorize_add(p.p2, Append(path, 2))
                              r == IF p.op = "And" THEN And_combine(a1.result, a2.result)
                                   ELSE Or_combine(a1.result, a2.result)
                          IN  [result |-> r,
                               policy |-> [p EXCEPT !.p1 = a1.policy, !.p2 = a2.policy],
                               calls |-> a1.calls \o a2.calls \o <<Invoked(path, r)>>]
                     ELSE [result |-> a1.result,
                           policy |-> [p EXCEPT !.p1 = a1.policy],
                           calls |-> Append(a1.calls, Invoked(path, a1.result))]
    ELSE [result |-> AuthBudget_add(p).result,
          policy |-> AuthBudget_add(p).policy,
          calls |-> <<Invoked(path, AuthBudget_add(p).result)>>]

\* the stateful uniqueness policies: `added` is the HashSet of identities
UniqueNode == [op |-> "UniqueNode", added |-> {}]

UniqueUnweightedEdge == [op |-> "UniqueUnweightedEdge", added |-> {}]

\* Variant of UniqueNode::add that answers without recording the id
UniqueNode_add_NoRecord(p, entity) ==
    [result |-> entity.id \notin p.added, policy |-> p]

\* UniqueNode::add: self.added.insert(entity.id())
UniqueNode_add(p, entity) ==
    [result |-> entity.id \notin p.added,
     policy |-> [p EXCEPT !.added = @ \cup {entity.id}]]

\* UniqueUnweightedEdge::add: self.added.insert((entity.from(), entity.to()))
UniqueUnweightedEdge_add(p, entity) ==
    [result |-> <<entity.from, entity.to>> \notin p.added,
     policy |-> [p EXCEPT !.added = @ \cup {<<entity.from, entity.to>>}]]

RECURSIVE Composite_add(_, _)
\* Authorize::add of a Composite and of its leaves, for an entity:
\* [result, the policy afterwards]
Composite_add(p, entity) ==
    IF p.op \in {"And", "Or"}
        THEN LET a1 == Composite_add(p.p1, entity)
             IN  IF EvaluatesSecond(p.op, a1.result)
                     THEN LET a2 == Composite_add(p.p2, entity)
                          IN  [result |-> IF p.op = "And"
                                             THEN And_combine(a1.result, a2.result)
                                             ELSE Or_combine(a1.result, a2.result),
                               policy |-> [p EXCEPT !.p1 = a1.policy, !.p2 = a2.policy]]
                     ELSE [result |-> a1.result, policy |-> [p EXCEPT !.p1 = a1.policy]]
    ELSE IF p.op = "UniqueNode" THEN UniqueNode_add(p, entity)
    ELSE IF p.op = "UniqueUnweightedEdge" THEN UniqueUnweightedEdge_add(p, entity)
    ELSE AuthBudget_add(p)

RECURSIVE Policy_is_compliant_calls(_, _, _, _)
\* Policy::is_compliant for Composite, Not and the leaves, with the calls made;
\* the path of the inner policy of a Not is the path of the Not followed by 1
Policy_is_compliant_calls(p, entity, context, path) ==
    IF p.op \in {"And", "Or"}
        THEN LET a1 == Policy_is_compliant_calls(p.p1, entity, context, Append(path, 1))
             IN  IF EvaluatesSecond(p.op, a1.result)
                     THEN LET a2 == Policy_is_compliant_calls(p.p2, entity, context,
                                                              Append(path, 2))
                              r == IF p.op = "And" THEN And_combine(a1.result, a2.result)
                                   ELSE Or_combine(a1.result, a2.result)
                          IN  [result |-> r, policy |-> p,
                               calls |-> a1.calls \o a2.calls \o <<Invoked(path, r)>>]
                     ELSE [result |-> a1.result, policy |-> p,
                           calls |-> Append(a1.calls, Invoked(path, a1.result))]
    ELSE IF p.op = "Not"
        THEN LET a == Policy_is_compliant_calls(p.p, entity, context, Append(path, 1))
             IN  [result |-> Not_apply(a.result), policy |-> p,
                  calls |-> Append(a.calls, Invoked(path, Not_apply(a.result)))]
    ELSE [result |-> Leaf_is_compliant(p, entity, context), policy |-> p,
          calls |-> <<Invoked(path, Leaf_is_compliant(p, entity, context))>>]

RECURSIVE Terminate_stop(_, _, _)
\* Terminate::stop for Composite, over operands that return a fixed answer
Terminate_stop(p, context, path) ==
    IF p.op \in {"And", "Or"}
        THEN LET a1 == Terminate_stop(p.p1, context, Append(path, 1))
             IN  IF EvaluatesSecond(p.op, a1.result)
                     THEN LET a2 == Terminate_stop(p.p2, context, Append(path, 2))
                              r == IF p.op = "And" THEN And_combine(a1.result, a2.result)
                                   ELSE Or_combine(a1.result, a2.result)
                          IN  [result |-> r, policy |-> p,
                               calls |-> a1.calls \o a2.calls \o <<Invoked(path, r)>>]
                     ELSE [result |-> a1.result, policy |-> p,
                           calls |-> Append(a1.calls, Invoked(path, a1.result))]
    ELSE [result |-> p.op = "AlwaysTrue", policy |-> p,
          calls |-> <<Invoked(path, p.op = "AlwaysTrue")>>]

\* the composites of two operands, each a leaf or a composite of two leaves
Composites(leaves) ==
    LET inner == {And(a, b) : a \in leaves, b \in leaves}
                     \cup {Or(a, b) : a \in leaves, b \in leaves}
        operands == leaves \cup inner
    IN  {And(a, b) : a \in operands, b \in operands}
            \cup {Or(a, b) : a \in operands, b \in operands}

\* Variant of Composite::and that groups to the right
Composite_and_RightNested(p, other) == And(p.p1, And(p.p2, other))

\* Composite::and
Composite_and(p, other) == And(p, other)

\* Composite::or
Composite_or(p, other) == Or(p, other)

\* Composite::And(a, b).and(c), resp. Composite::Or(a, b).or(c)
Chain(op, a, b, c) ==
    IF op = "And" THEN Composite_and(And(a, b), c) ELSE Composite_or(Or(a, b), c)

\* the leaves of the Policy trait that are evaluated
PolicyLeaves == {AllowAll, DenyAll, DenyNodeOverride}

\* Not::new over a leaf, a Not of a leaf or a composite of two leaves, and the
\* composites of a Not of a leaf and a leaf built by Not::and and Not::or
Negations(leaves) ==
    LET inner == {And(a, b) : a \in leaves, b \in leaves}
                     \cup {Or(a, b) : a \in leaves, b \in leaves}
    IN  {Not(a) : a \in leaves \cup inner}
            \cup {Not(Not(a)) : a \in leaves}
            \cup {And(Not(a), b) : a \in leaves, b \in leaves}
            \cup {Or(Not(a), b) : a \in leaves, b \in leaves}

\* the two exclusive-or expressions of the composite tests, over two leaves
Exclusives(leaves) ==
    {And(Not(And(a, b)), Or(a, b)) : a \in leaves, b \in leaves}
        \cup {Composite_and(Or(a, b), Not(And(a, b))) : a \in leaves, b \in leaves}

\* the policies evaluated, by trait
PoliciesOf(trait) ==
    CASE trait = "Authorize" -> Composites({AuthBudget(b) : b \in 0 .. MaxBudget})
      [] trait = "Policy" -> Composites(PolicyLeaves) \cup Negations(PolicyLeaves)
                                 \cup Exclusives(PolicyLeaves)
      [] trait = "Terminate" -> Composites({AlwaysTrue, AlwaysFalse})

\* the graphs handed to is_compliant as context
PolicyContexts ==
    {Graph_new, [nodes |-> add_node(EmptyMap, 0, None), edges |-> EmptyMap]}

InitPolicy ==
    /\ \/ \E trait \in {"Authorize", "Policy", "Terminate"} :
             /\ cfg = [name |-> "Composite", trait |-> trait, chain |-> None]
             /\ policy \in PoliciesOf(trait)
       \/ \E op \in {"And", "Or"}, a \in PolicyLeaves, b \in PolicyLeaves, c \in PolicyLeaves :
             /\ cfg = [name |-> "Composite", trait |-> "Policy",
                       chain |-> Some([op |-> op, a |-> a, b |-> b, c |-> c])]
             /\ policy = Chain(op, a, b, c)
    /\ ghost = [before |-> policy, result |-> FALSE, calls |-> <<>>,
                entity |-> None, context |-> None]
    /\ nodes = EmptyMap
    /\ edges = EmptyMap
    /\ pc = "evaluate"
    /\ frontier = Frontier_new("Queue")
    /\ visitor = Visitor_new("Simple", NoTermination)
    /\ current_id = 0
    /\ idx = 0
    /\ log = <<>>
    /\ IdleBuild

evalFrame == <<nodes, edges, pc, cfg, frontier, visitor, current_id, idx, log, buildVars>>

\* one call of add on the policy: its state moves on
Add ==
    /\ cfg.trait = "Authorize"
    /\ LET a == Authorize_add(policy, <<>>)
       IN  /\ policy' = a.policy
           /\ ghost' = [before |-> policy, result |-> a.result, calls |-> a.calls,
                        entity |-> None, context |-> None]
    /\ UNCHANGED evalFrame

\* one call of is_compliant on the policy, for a node and a graph
IsCompliant(entity, context) ==
    /\ cfg.trait = "Policy"
    /\ LET a == Policy_is_compliant_calls(policy, entity, context, <<>>)
       IN  /\ policy' = a.policy
           /\ ghost' = [before |-> policy, result |-> a.result, calls |-> a.calls,
                        entity |-> Some(entity), context |-> Some(context)]
    /\ UNCHANGED evalFrame

\* one call of stop on the policy
StopCall(context) ==
    /\ cfg.trait = "Terminate"
    /\ LET a == Terminate_stop(policy, context, <<>>)
       IN  /\ policy' = a.policy
           /\ ghost' = [before |-> policy, result |-> a.result, calls |-> a.calls,
                        entity |-> None, context |-> Some(context)]
    /\ UNCHANGED evalFrame

NextPolicy ==
    \/ Add
    \/ \E id \in {0, 1}, context \in PolicyContexts : IsCompliant(EmptyNode(id), context)
    \/ \E context \in {None, Some(0)} : StopCall(context)

SpecPolicy == InitPolicy /\ [][NextPolicy]_vars

(***************************************************************************)
(* One AuthBudget under any sequence of add calls, each for any of a few   *)
(* entities and contexts.  cfg holds the budget it was built with; ghost   *)
(* records the calls made so far, each with what it returned, and the      *)
(* policy the last call was made on.                                       *)
(***************************************************************************)
\* the add calls made on one AuthBudget
MaxCalls == MaxBudget + 3

BudgetEntities == {EmptyNode(0), EmptyNode(1), UnweightedEdge(0, 1)}

InitBudget ==
    /\ \E budget \in 0 .. MaxBudget + 2 :
          /\ cfg = [name |-> "AuthBudget", budget |-> budget]
          /\ policy = AuthBudget(budget)
    /\ ghost = [calls |-> <<>>, before |-> policy]
    /\ pc = "add"
    /\ nodes = EmptyMap
    /\ edges = EmptyMap
    /\ frontier = Frontier_new("Queue")
    /\ visitor = Visitor_new("Simple", NoTermination)
    /\ current_id = 0
    /\ idx = 0
    /\ log = <<>>
    /\ IdleBuild

\* one call of add(entity, context) on the AuthBudget
BudgetAdd(entity, context) ==
    /\ cfg.name = "AuthBudget"
    /\ Len(ghost.calls) < MaxCalls
    /\ LET a == AuthBudget_add(policy)
       IN  /\ policy' = a.policy
           /\ ghost' = [calls |-> Append(ghost.calls,
                                         [entity |-> entity, context |-> context,
                                          result |-> a.result]),
                        before |-> policy]
    /\ UNCHANGED evalFrame

NextBudget == \E entity \in BudgetEntities, context \in PolicyContexts : BudgetAdd(entity, context)

SpecBudget == InitBudget /\ [][NextBudget]_vars

(***************************************************************************)
(* Composite::Or(budget, uniqueness) as admission policy, in its three     *)
(* forms: the stateful Or(AuthBudget, UniqueNode) and Or(AuthBudget,       *)
(* UniqueUnweightedEdge), asked through add, and Or(EdgeBudget,            *)
(* UniqueEdge), asked through apply with the graph as context.  The caller *)
(* presents any sequence of candidates and adds each admitted one to the   *)
(* graph.  ghost records the candidates presented and what was answered.   *)
(***************************************************************************)
AdmitEntities(form) ==
    IF form = "AuthNode" THEN {EmptyNode(0), EmptyNode(1)}
    ELSE {UnweightedEdge(0, 1), UnweightedEdge(1, 0)}

InitAdmit ==
    /\ \E form \in {"AuthNode", "AuthEdge", "GraphEdge"}, budget \in 0 .. MaxBudget + 1 :
          /\ cfg = [name |-> "Admission", form |-> form, budget |-> budget]
          /\ policy = CASE form = "AuthNode" -> Or(AuthBudget(budget), UniqueNode)
                         [] form = "AuthEdge" -> Or(AuthBudget(budget), UniqueUnweightedEdge)
                         [] form = "GraphEdge" -> Or(EdgeBudget(budget), UniqueEdge)
    /\ ghost = [calls |-> <<>>]
    /\ pc = "admit"
    /\ nodes = EmptyMap
    /\ edges = EmptyMap
    /\ frontier = Frontier_new("Queue")
    /\ visitor = Visitor_new("Simple", NoTermination)
    /\ current_id = 0
    /\ idx = 0
    /\ log = <<>>
    /\ IdleBuild

\* one candidate: the policy is asked, and the caller adds the candidate to
\* the graph when the answer is true
Admit(entity) ==
    /\ cfg.name = "Admission"
    /\ Len(ghost.calls) < MaxCalls
    /\ LET a == IF cfg.form = "GraphEdge"
                    THEN [result |-> Policy_is_compliant(policy, entity,
                                                         [nodes |-> nodes, edges |-> edges]),
                          policy |-> policy]
                    ELSE Composite_add(policy, entity)
       IN  /\ policy' = a.policy
           /\ ghost' = [calls |-> Append(ghost.calls,
                                         [entity |-> entity, result |-> a.result])]
           /\ nodes' = IF a.result /\ cfg.form = "AuthNode"
                           THEN add_node(nodes, entity.id, entity.data) ELSE nodes
           /\ edges' = IF a.result /\ cfg.form # "AuthNode"
                           THEN add_edge(edges, entity) ELSE edges
    /\ UNCHANGED <<pc, cfg, frontier, visitor, current_id, idx, log, buildVars>>

NextAdmit == \E entity \in AdmitEntities(cfg.form) : Admit(entity)

SpecAdmit == InitAdmit /\ [][NextAdmit]_vars

(***************************************************************************)
(* WeightedVisitor under any sequence of should_explore and visit calls,   *)
(* on a few weighted graphs.  ghost records, per target, the least         *)
(* candidate distance of the should_explore calls made so far, the ids     *)
(* whose entry visit created, and the last call.                           *)
(***************************************************************************)
RECURSIVE AddEdges(_, _)
\* add_edge of every edge of the sequence, in order
AddEdges(es, new) ==
    IF new = <<>> THEN es ELSE AddEdges(add_edge(es, Head(new)), Tail(new))

WeightedGraphs ==
    {\* weighted_visitor.rs, chooses_shortest_path_among_alternatives
     AddEdges(EmptyMap, <<WeightedEdge(0, 2, 10), WeightedEdge(0, 1, 2), WeightedEdge(1, 2, 3)>>),
     \* an edge back to the start, as in an undirected graph
     AddEdges(EmptyMap, <<WeightedEdge(0, 1, 1), WeightedEdge(1, 0, 1), WeightedEdge(1, 2, 2)>>),
     \* two parallel edges
     AddEdges(EmptyMap, <<WeightedEdge(0, 1, 5), WeightedEdge(0, 1, 2), WeightedEdge(1, 2, 1)>>)}

InitWeighted ==
    /\ cfg = [name |-> "WeightedVisitor"]
    /\ nodes = AddNodes(EmptyMap, Ids)
    /\ edges \in WeightedGraphs
    /\ visitor = Visitor_new("Weighted", NoTermination)
    /\ ghost = [least |-> EmptyMap, seeded |-> {},
                last |-> [call |-> "new", to |-> 0, candidate |-> 0,
                          result |-> FALSE, before |-> EmptyMap]]
    /\ pc = "calls"
    /\ frontier = Frontier_new("MinHeap")
    /\ current_id = 0
    /\ idx = 0
    /\ log = <<>>
    /\ IdleBuild
    /\ policy = AllowAll

callFrame == <<nodes, edges, pc, cfg, frontier, current_id, idx, log, buildVars, policy>>

\* one call of should_explore(from, to, graph)
ShouldExplore(from, to) ==
    /\ cfg.name = "WeightedVisitor"
    /\ LET candidate == (IF from \in DOMAIN visitor.distances
                            THEN visitor.distances[from] ELSE 0)
                        + FirstWeight(edges, from, to)
           asked == Weighted_should_explore(visitor, from, to, edges)
       IN  /\ visitor' = asked.visitor
           /\ ghost' = [ghost EXCEPT
                 !.least = MapInsert(@, to,
                              IF to \in DOMAIN @ /\ @[to] <= candidate
                                  THEN @[to] ELSE candidate),
                 !.last = [call |-> "should_explore", to |-> to, candidate |-> candidate,
                           result |-> asked.result, before |-> visitor.distances]]
    /\ UNCHANGED callFrame

\* one call of visit(node_id, graph)
VisitCall(node_id) ==
    /\ cfg.name = "WeightedVisitor"
    /\ visitor' = Weighted_visit(visitor, node_id)
    /\ ghost' = [ghost EXCEPT
          !.seeded = IF node_id \in DOMAIN visitor.distances THEN @ ELSE @ \cup {node_id},
          !.last = [call |-> "visit", to |-> node_id, candidate |-> 0,
                    result |-> FALSE, before |-> visitor.distances]]
    /\ UNCHANGED callFrame

NextWeighted ==
    \/ \E from \in Ids, to \in Ids : ShouldExplore(from, to)
    \/ \E node_id \in Ids : VisitCall(node_id)

SpecWeighted == InitWeighted /\ [][NextWeighted]_vars

(***************************************************************************)
(* One frontier of any kind under any sequence of push and pop calls, at   *)
(* most MaxPushes of them pushes of an id.  ghost records the pushes of an *)
(* id made so far with what each returned, the ids popped so far, and the  *)
(* last call with the frontier it was made on.  A pop that panics ends the *)
(* run.                                                                    *)
(***************************************************************************)
\* the ids and the costs handed to push
PushIds == {0, 1, 2}
PushCosts == {None, Some(1), Some(2)}

InitFrontier ==
    /\ \E kind \in FrontierKinds :
          /\ cfg = [name |-> "Frontier", fkind |-> kind]
          /\ frontier = Frontier_new(kind)
    /\ ghost = [pushes |-> <<>>, popped |-> <<>>,
                last |-> [op |-> "new", node |-> None, cost |-> None, result |-> None,
                          panic |-> FALSE, before |-> frontier]]
    /\ pc = "calls"
    /\ nodes = EmptyMap
    /\ edges = EmptyMap
    /\ visitor = Visitor_new("Simple", NoTermination)
    /\ current_id = 0
    /\ idx = 0
    /\ log = <<>>
    /\ IdleBuild
    /\ policy = AllowAll

frontierFrame == <<nodes, edges, cfg, visitor, current_id, idx, log, buildVars, policy>>

\* one call of push(node, cost); MaxHeap::push takes an id, never None
PushCall(node, cost) ==
    /\ cfg.name = "Frontier"
    /\ pc = "calls"
    /\ node = None => cfg.fkind # "MaxHeap"
    /\ node # None => Len(ghost.pushes) < MaxPushes
    /\ LET pushed == Frontier_push_call(frontier, node, cost)
       IN  /\ frontier' = pushed.frontier
           /\ ghost' = [ghost EXCEPT
                 !.pushes = IF node = None THEN @
                            ELSE Append(@, [id |-> unwrap_or(node, 0),
                                            cost |-> unwrap_or(cost, 0),
                                            result |-> pushed.result]),
                 !.last = [op |-> "push", node |-> node, cost |-> cost,
                           result |-> {pushed.result}, panic |-> FALSE,
                           before |-> frontier]]
    /\ pc' = pc
    /\ UNCHANGED frontierFrame

\* one call of pop
PopCall ==
    /\ cfg.name = "Frontier"
    /\ pc = "calls"
    /\ \E popped \in Frontier_pop(frontier) :
          /\ frontier' = popped.frontier
          /\ ghost' = [ghost EXCEPT
                !.popped = IF popped.result = None THEN @
                           ELSE Append(@, unwrap_or(popped.result, 0)),
                !.last = [op |-> "pop", node |-> None, cost |-> None,
                          result |-> popped.result, panic |-> popped.panic,
                          before |-> frontier]]
          /\ pc' = IF popped.panic THEN "panicked" ELSE pc
    /\ UNCHANGED frontierFrame

NextFrontier ==
    \/ \E node \in {None} \cup {Some(id) : id \in PushIds}, cost \in PushCosts :
          PushCall(node, cost)
    \/ PopCall

SpecFrontier == InitFrontier /\ [][NextFrontier]_vars

(***************************************************************************)
(* One Graph under any sequence of at most MaxGraphCalls add_node and      *)
(* add_edge calls.  ghost records the calls made so far, in order, and the *)
(* graph the last call was made on.                                        *)
(***************************************************************************)
MaxGraphCalls == MaxEdges

\* the payloads of the nodes added
NodePayloads == {None, Some(1), Some(2)}

InitGraph ==
    /\ cfg = [name |-> "Graph"]
    /\ nodes = Graph_new.nodes
    /\ edges = Graph_new.edges
    /\ ghost = [calls |-> <<>>, before |-> Graph_new]
    /\ pc = "calls"
    /\ frontier = Frontier_new("Queue")
    /\ visitor = Visitor_new("Simple", NoTermination)
    /\ current_id = 0
    /\ idx = 0
    /\ log = <<>>
    /\ IdleBuild
    /\ policy = AllowAll

graphFrame == <<pc, cfg, frontier, visitor, current_id, idx, log, buildVars, policy>>

\* one call of add_node(node)
AddNodeCall(id, data) ==
    /\ cfg.name = "Graph"
    /\ Len(ghost.calls) < MaxGraphCalls
    /\ nodes' = add_node(nodes, id, data)
    /\ edges' = edges
    /\ ghost' = [calls |-> Append(ghost.calls, [op |-> "add_node", id |-> id, data |-> data]),
                 before |-> [nodes |-> nodes, edges |-> edges]]
    /\ UNCHANGED graphFrame

\* one call of add_edge(edge)
AddEdgeCall(from, to) ==
    /\ cfg.name = "Graph"
    /\ Len(ghost.calls) < MaxGraphCalls
    /\ edges' = add_edge(edges, UnweightedEdge(from, to))
    /\ nodes' = nodes
    /\ ghost' = [calls |-> Append(ghost.calls,
                                  [op |-> "add_edge", edge |-> UnweightedEdge(from, to)]),
                 before |-> [nodes |-> nodes, edges |-> edges]]
    /\ UNCHANGED graphFrame

NextGraph ==
    \/ \E id \in Ids, data \in NodePayloads : AddNodeCall(id, data)
    \/ \E from \in Ids, to \in Ids : AddEdgeCall(from, to)

SpecGraph == InitGraph /\ [][NextGraph]_vars

(***************************************************************************)
(* Reading the log and the graph.                                          *)
(***************************************************************************)
Positions(call) == {i \in 1 .. Len(log) : log[i].call = call}

NumCalls(call) == Cardinality(Positions(call))

\* the entries of the iteration that popped at position p: from p + 1 up to the
\* next loop test, or to the end of the log
IterationEnd(p) ==
    LET later == {j \in p + 1 .. Len(log) : log[j].call = "is_empty"}
    IN  IF later = {} THEN Len(log)
        ELSE (CHOOSE j \in later : \A k \in later : j <= k) - 1

Iteration(p) == SubSeq(log, p + 1, IterationEnd(p))

\* the traversal has returned
Returned == pc = "done"

Targets(es, f) == {EdgesFrom(es, f)[i].to : i \in 1 .. Len(EdgesFrom(es, f))}

RECURSIVE Within(_, _, _)
\* the ids reached from the set `from` along at most k edges
Within(es, from, k) ==
    IF k = 0 THEN from
    ELSE Within(es, from \cup UNION {Targets(es, f) : f \in from}, k - 1)

\* the least number of edges of a path from s to t, when there is one
Hops(es, s, t) ==
    CHOOSE k \in 0 .. Cardinality(DOMAIN nodes) :
        /\ t \in Within(es, {s}, k)
        /\ \A j \in 0 .. k - 1 : t \notin Within(es, {s}, j)

Reachable(es, s, t) == t \in Within(es, {s}, Cardinality(DOMAIN nodes))

RECURSIVE ParentChain(_, _, _)
\* the ids met following SimpleVisitor's get_parent from node_id, for at most k
\* steps: <<node_id, parent, grandparent, ...>>, ending at an id with no parent
ParentChain(v, node_id, k) ==
    IF k = 0 \/ Simple_get_parent(v, node_id) = None THEN <<node_id>>
    ELSE <<node_id>> \o ParentChain(v, CHOOSE q \in Simple_get_parent(v, node_id) : TRUE, k - 1)

(***************************************************************************)
(* Properties of Graph::traverse, stated for Spec.                         *)
(***************************************************************************)
\* the number of entries of seg, among its first j, that are should_explore calls
AsksUpTo(seg, j) == Cardinality({i \in 1 .. j : seg[i].call = "should_explore"})

\* the traversal is one of the breadth-first ones: Queue and
\* SimpleVisitor(GoalReached(goal))
IsBfs == cfg.fkind = "Queue" /\ cfg.vkind = "Simple" /\ cfg.terminate.op = "GoalReached"

\* C1: every id popped from the frontier receives exactly one visit call in its
\* iteration, so once an iteration is over the number of visit calls equals the
\* number of pops, also for popped ids without outgoing edges; on the fan graph
\* (nodes 0, 1, 2, edges 0 -> 1 and 0 -> 2) with a Queue and the visitor that
\* stops at its third visit, visit has been called three times on return.
C1_VisitPerPop ==
    /\ pc \in {"loop", "done"} => NumCalls("visit") = NumCalls("pop")
    /\ (Returned /\ cfg.name = "Fan") => visitor.count = 3

C4_IterationOrder ==
    /\ \A p \in Positions("pop") :
          LET c == log[p].a
              seg == Iteration(p)
              out == EdgesFrom(edges, c)
          IN  c \in DOMAIN edges =>
                /\ AsksUpTo(seg, Len(seg)) <= Len(out)
                /\ \A j \in 1 .. Len(seg) :
                      CASE seg[j].call = "should_explore" ->
                              /\ seg[j].a = c
                              /\ seg[j].b = out[AsksUpTo(seg, j)].to
                              /\ IF seg[j].r
                                    THEN /\ j + 2 <= Len(seg)
                                         /\ seg[j + 1].call = "exploration_cost"
                                         /\ seg[j + 2].call = "push"
                                    ELSE j < Len(seg) =>
                                             seg[j + 1].call \in {"should_explore", "visit"}
                        [] seg[j].call = "exploration_cost" ->
                              /\ j > 1
                              /\ seg[j - 1].call = "should_explore"
                              /\ seg[j - 1].r
                              /\ seg[j].a = c
                              /\ seg[j].b = seg[j - 1].b
                        [] seg[j].call = "push" ->
                              /\ j > 1
                              /\ seg[j - 1].call = "exploration_cost"
                              /\ seg[j].a = seg[j - 1].b
                              /\ seg[j].b = seg[j - 1].r
                        [] seg[j].call = "visit" ->
                              /\ seg[j].a = c
                              /\ AsksUpTo(seg, j) = Len(out)
                              /\ \A i \in 1 .. j - 1 : seg[i].call # "visit"
                        [] seg[j].call = "should_stop" ->
                              /\ j > 1
                              /\ seg[j - 1].call = "visit"
                              /\ seg[j].a = c
                              /\ j = Len(seg)
                        [] OTHER -> FALSE
    /\ (Returned /\ Len(log) > 0 /\ Last(log).call = "should_stop") =>
          /\ Last(log).r
          /\ cfg.vkind = "Simple" =>
                Targets(edges, Last(log).a) \subseteq DOMAIN visitor.visited
          /\ cfg.vkind = "Weighted" =>
                Targets(edges, Last(log).a) \subseteq DOMAIN visitor.distances

\* the traversal stopped on an id of which one edge was explored and pushed and
\* another was not
C4_Witness ==
    /\ Returned
    /\ Last(log).call = "should_stop"
    /\ \E p \in Positions("pop") :
          /\ IterationEnd(p) = Len(log)
          /\ \E i, j \in 1 .. Len(Iteration(p)) :
                /\ Iteration(p)[i].call = "should_explore"
                /\ Iteration(p)[i].r
                /\ Iteration(p)[j].call = "should_explore"
                /\ ~Iteration(p)[j].r

\* C6: in a breadth-first traversal from 0 over a graph without dangling edge,
\* whenever the goal is reachable from 0 then, on return, following get_parent
\* from the goal reaches 0, whose parent is None, along edges of the graph and
\* in the minimum number of edges; adjacency [[1],[2],[3],[]] with goal 3 gives
\* 3 <- 2 <- 1 <- 0.
C6_BfsShortestChain ==
    (Returned /\ IsBfs /\ Reachable(edges, cfg.start, cfg.terminate.goal)) =>
        LET chain == ParentChain(visitor, cfg.terminate.goal, Cardinality(DOMAIN nodes))
        IN  /\ Last(chain) = cfg.start
            /\ Simple_get_parent(visitor, cfg.start) = None
            /\ Len(chain) - 1 = Hops(edges, cfg.start, cfg.terminate.goal)
            /\ \A i \in 1 .. Len(chain) - 1 : chain[i] \in Targets(edges, chain[i + 1])
            /\ cfg.name = "Linear" => chain = <<3, 2, 1, 0>>

\* C7: Dijkstra (MinHeap, weighted visitor, start 0) on the five-node graph with
\* weights 0-1:1, 1-2:2, 2-3:3, 3-4:1, 0-4:10: node 4 is first reached from 0 at
\* cost 10 and relaxed when 3 is expanded, so on return the route to 4 comes
\* from 3 at cost 7, the route to 3 is 0 -> 1 -> 2 -> 3 at cost 6, and the
\* start has no parent.
C7_DijkstraRelaxes ==
    (Returned /\ cfg.name = "LightestPath") =>
        /\ visitor.distances[4] = 7
        /\ Weighted_get_parent(visitor, 4) = Some(3)
        /\ visitor.distances[3] = 6
        /\ Weighted_get_parent(visitor, 3) = Some(2)
        /\ Weighted_get_parent(visitor, 2) = Some(1)
        /\ Weighted_get_parent(visitor, 1) = Some(0)
        /\ Weighted_get_parent(visitor, 0) = None
        /\ \E i, j \in Positions("exploration_cost") :
              /\ i < j
              /\ log[i].a = 0 /\ log[i].b = 4 /\ log[i].r = 10
              /\ log[j].a = 3 /\ log[j].b = 4 /\ log[j].r = 7
              /\ \A k \in Positions("exploration_cost") : log[k].b = 4 => k >= i
              /\ \E p \in Positions("pop") :
                    log[p].a = 3 /\ p < j /\ j <= IterationEnd(p)

\* the Dijkstra traversal to goal 3 has returned, on the visit of 3
C7_Witness ==
    /\ Returned
    /\ cfg.name = "LightestPath"
    /\ cfg.terminate = GoalReached(3)
    /\ Last(log).call = "should_stop"
    /\ Last(log).a = 3

\* C8: depth-first (Stack, SimpleVisitor(GoalReached(7)), start 0) on adjacency
\* [[1,2,3],[4],[5],[6],[7],[7],[7],[]]: the neighbour pushed last is expanded
\* first, so on return the parent chain is 7 <- 6 <- 3 <- 0 <- None and the
\* nodes 4 and 5 have no parent recorded.
C8_DfsChain ==
    (Returned /\ cfg.name = "MultiplePath") =>
        /\ ParentChain(visitor, 7, Cardinality(DOMAIN nodes)) = <<7, 6, 3, 0>>
        /\ Simple_get_parent(visitor, 0) = None
        /\ Simple_get_parent(visitor, 4) = None
        /\ Simple_get_parent(visitor, 5) = None
        /\ \A p \in Positions("pop") : log[p].a \in {0, 3, 6, 7}

\* the depth-first traversal has returned after expanding 3 and 6
C8_Witness ==
    /\ Returned
    /\ cfg.name = "MultiplePath"
    /\ \E p, q \in Positions("pop") : log[p].a = 3 /\ log[q].a = 6 /\ p < q

\* C16: traverse never calls pop on an empty frontier: every pop comes
\* immediately after an is_empty test that returned false, it returns an id
\* and does not panic, for every graph, frontier and visitor modelled.
C16_PopOnlyAfterNonEmptyTest ==
    /\ pc # "panicked"
    /\ pc = "pop" => ~Frontier_is_empty(frontier)
    /\ \A p \in Positions("pop") :
          /\ p > 1
          /\ log[p - 1].call = "is_empty"
          /\ ~log[p - 1].r
          /\ log[p].r

\* a traversal on a MinHeap popped three times and returned after is_empty
\* returned true
C16_Witness ==
    /\ Returned
    /\ cfg.fkind = "MinHeap"
    /\ NumCalls("pop") >= 3
    /\ Last(log).call = "is_empty"
    /\ Last(log).r

\* the ids the log says were pushed, and those it says were popped
PushedIds == {log[i].a : i \in Positions("push")}
PoppedIds == {log[i].a : i \in Positions("pop")}

\* C17: once should_stop has returned true, traverse returns with no further
\* pop and no further visitor callback, and what was pushed but not popped is
\* still in the frontier.
C17_StopEndsTraversal ==
    \A p \in Positions("should_stop") :
        log[p].r =>
            /\ Returned
            /\ p = Len(log)
            /\ IF cfg.fkind \in {"Queue", "Stack"}
                  THEN {frontier.opened[i].id : i \in 1 .. Len(frontier.opened)}
                          = PushedIds \ PoppedIds
                  ELSE Len(frontier.opened) = NumCalls("push") - NumCalls("pop")

\* edges 0 -> 1 and 0 -> 2, a Queue, a visitor that explores every edge and
\* stops at its first visit: traverse has returned after one pop with 1 and 2
\* in the frontier
C17_Witness ==
    /\ Returned
    /\ cfg.vkind = "TerminateFirst" /\ cfg.fkind = "Queue"
    /\ Last(log).call = "should_stop" /\ Last(log).r
    /\ NumCalls("pop") = 1
    /\ 0 \in DOMAIN edges /\ Targets(edges, 0) = {1, 2}
    /\ ~Frontier_is_empty(frontier)
    /\ {frontier.opened[i].id : i \in 1 .. Len(frontier.opened)} = {1, 2}

\* C18: with a visitor whose should_stop always returns false, whenever
\* traverse returns the frontier is empty.
C18_ReturnsOnEmptyFrontier ==
    cfg.name = "Any" /\ cfg.vkind = "NeverTerminate" /\ Returned => Frontier_is_empty(frontier)

\* the ids visit has been called on before position p of the log
VisitedBefore(p) == {log[i].a : i \in {j \in Positions("visit") : j < p}}

\* C29: with OpeningExhausted(N) as terminate policy of a SimpleVisitor, every
\* should_stop call of a traversal returns true exactly when visit has been
\* called on at least N nodes, so the traversal does not stop before its N-th
\* visit.
C29_StopsAtNVisits ==
    cfg.terminate.op = "OpeningExhausted" =>
        \A p \in Positions("should_stop") :
            log[p].r = (Cardinality(VisitedBefore(p)) >= cfg.terminate.max_opening)

\* C30: once a traversal with a MinHeap and a WeightedVisitor has visited its
\* start node, the distance stored for the start node is 0, and it stays 0,
\* on every graph (the weights are not negative), self-loops on the start node
\* and edges back to it included.
C30_StartDistanceZero ==
    (/\ cfg.name = "Any"
     /\ cfg.fkind = "MinHeap"
     /\ cfg.vkind = "Weighted"
     /\ \E p \in Positions("visit") : log[p].a = cfg.start) =>
        /\ cfg.start \in DOMAIN visitor.distances
        /\ visitor.distances[cfg.start] = 0

\* C31: after a traversal with a SimpleVisitor has returned, get_parent of the
\* start node is None and following get_parent from any id with a recorded
\* parent ends at the start node, on every graph, cycles and self-loops
\* included.
C31_ParentsFormTree ==
    (Returned /\ cfg.name = "Any" /\ cfg.vkind = "Simple") =>
        /\ Simple_get_parent(visitor, cfg.start) = None
        /\ \A id \in Ids :
              Simple_get_parent(visitor, id) # None =>
                  Last(ParentChain(visitor, id, Cardinality(Ids))) = cfg.start

\* the weights of the edges from -> to of an edge map
WeightsBetween(es, from, to) ==
    {EdgesFrom(es, from)[i].weight :
        i \in {j \in 1 .. Len(EdgesFrom(es, from)) : EdgesFrom(es, from)[j].to = to}}

\* C36: in a traversal every explored edge is costed with the distance of its
\* source plus its own weight, so of several parallel edges the lightest one
\* decides the distance stored for their target: on the graph with the edges
\* 0 -> 1 of weights 5 and 2, after the traversal from 0 every neighbour of 0
\* has the weight of the lightest edge from 0 to it as distance.
C36_LightestParallelEdgeCounts ==
    (Returned /\ cfg.name = "Parallel") =>
        \A to \in Targets(edges, cfg.start) \ {cfg.start} :
            /\ to \in DOMAIN visitor.distances
            /\ \A w \in WeightsBetween(edges, cfg.start, to) : visitor.distances[to] <= w

\* the positions of the log at which the SimpleVisitor was handed the id as
\* target of should_explore or as the node to visit
Touches(id) ==
    {p \in 1 .. Len(log) : \/ log[p].call = "should_explore" /\ log[p].b = id
                           \/ log[p].call = "visit" /\ log[p].a = id}

\* C37: a SimpleVisitor never changes a recorded entry: should_explore(from,
\* to) returns true, and records from as parent of to, exactly when to was
\* neither discovered nor visited before, and visit records None only for an
\* id without entry; so the entry of an id is what its first should_explore
\* or visit recorded, every id but the start node is pushed at most once, and
\* breadth-first on the 4-cycle [[1,2],[0,3],[0,3],[1,2]] gives 3 the parent 1.
C37_FirstDiscovererStays ==
    cfg.vkind = "Simple" =>
        /\ \A p \in Positions("should_explore") :
              log[p].r = (\A q \in Touches(log[p].b) : q >= p)
        /\ DOMAIN visitor.visited = {id \in DOMAIN nodes \cup Ids : Touches(id) # {}}
        /\ \A id \in DOMAIN visitor.visited :
              LET first == CHOOSE p \in Touches(id) : \A q \in Touches(id) : p <= q
              IN  visitor.visited[id] =
                      IF log[first].call = "visit" THEN None ELSE Some(log[first].a)
        /\ \A id \in (DOMAIN nodes \cup Ids) \ {cfg.start} :
              Cardinality({p \in Positions("push") : log[p].a = id}) <= 1
        /\ (Returned /\ cfg.name = "Cyclic") => Simple_get_parent(visitor, 3) = Some(1)

\* a traversal with a SimpleVisitor has returned after should_explore refused
\* a target that an earlier should_explore had recorded under another parent
C37_Witness ==
    /\ Returned
    /\ cfg.vkind = "Simple"
    /\ \E p, q \in Positions("should_explore") :
          /\ p < q
          /\ log[p].b = log[q].b
          /\ log[p].a # log[q].a
          /\ log[p].r
          /\ ~log[q].r
          /\ Simple_get_parent(visitor, log[q].b) = Some(log[p].a)

(***************************************************************************)
(* Properties of GraphBuilder::build, stated for SpecBuild.                *)
(***************************************************************************)
RECURSIVE InsertAll(_, _)
\* the node map after add_node of the candidates of `admitted`, in order
InsertAll(ns, admitted) ==
    IF admitted = <<>> THEN ns
    ELSE InsertAll(add_node(ns, Head(admitted).node.id, Head(admitted).node.data),
                   Tail(admitted))

RECURSIVE AdmissibleFrom(_, _, _)
\* the sampled edges, in sampling order, that leave `from` and whose two ends
\* are ids of ns
AdmissibleFrom(sampled, from, ns) ==
    IF sampled = <<>> THEN <<>>
    ELSE (IF /\ Head(sampled).edge.from = from
             /\ Head(sampled).edge.from \in DOMAIN ns
             /\ Head(sampled).edge.to \in DOMAIN ns
          THEN <<Head(sampled).edge>> ELSE <<>>)
         \o AdmissibleFrom(Tail(sampled), from, ns)

\* C9: build evaluates the edge policy and calls add_edge only once the sampler
\* has returned None and every admitted node is inserted; so with
\* DenyDanglingEdge as edge policy the built graph holds exactly the sampled
\* edges whose two endpoints are admitted nodes, also for an edge sampled
\* before its target node, and it holds no dangling edge.
C9_EdgesAfterSampling ==
    /\ (ghost.edge_evals > 0 \/ edges # EmptyMap \/ pc \in {"b_edge", "b_add_edge"}) =>
          /\ ghost.exhausted
          /\ pending.nodes = <<>>
          /\ nodes = InsertAll(EmptyMap, ghost.admitted)
    /\ (pc = "b_done" /\ cfg.edge_policy = DenyDanglingEdge) =>
          /\ \A from \in BuildIds :
                IF AdmissibleFrom(ghost.sampled, from, nodes) = <<>>
                    THEN from \notin DOMAIN edges
                    ELSE /\ from \in DOMAIN edges
                         /\ edges[from] = AdmissibleFrom(ghost.sampled, from, nodes)
          /\ \A from \in DOMAIN edges : \A i \in 1 .. Len(edges[from]) :
                /\ edges[from][i].from \in DOMAIN nodes
                /\ edges[from][i].to \in DOMAIN nodes

\* a build with DenyDanglingEdge has returned a graph holding an edge that was
\* sampled before any node of its target id, after dropping a dangling edge
C9_Witness ==
    /\ pc = "b_done"
    /\ cfg.edge_policy = DenyDanglingEdge
    /\ \E i \in 1 .. Len(ghost.sampled) :
          LET e == ghost.sampled[i].edge
          IN  /\ e.from \in DOMAIN edges
              /\ \E k \in 1 .. Len(edges[e.from]) : edges[e.from][k] = e
              /\ \A a \in 1 .. Len(ghost.admitted) :
                    ghost.admitted[a].node.id = e.to =>
                        ghost.admitted[a].sample > ghost.sampled[i].sample
    /\ \E i \in 1 .. Len(ghost.sampled) :
          ghost.sampled[i].edge.to \notin DOMAIN nodes

RECURSIVE SampledFrom(_, _)
\* the sampled edges that leave `from`, in sampling order
SampledFrom(sampled, from) ==
    IF sampled = <<>> THEN <<>>
    ELSE (IF Head(sampled).edge.from = from THEN <<Head(sampled).edge>> ELSE <<>>)
         \o SampledFrom(Tail(sampled), from)

\* the positions in the sampled candidates of the nodes of one id
CandidatesOf(id) ==
    {k \in 1 .. Len(ghost.candidates) : ghost.candidates[k].id = id}

\* C27: with AllowAll as node policy and as edge policy, build returns only
\* once next has returned None, and the graph it returns holds one node per
\* sampled id (the last candidate of that id) and every sampled edge, in
\* sampling order under its source; once next has returned None it is not
\* called again; and when the first call of next returns None the graph is
\* empty and neither policy has been evaluated.
C27_AcceptAllKeepsEverySample ==
    /\ (cfg.node_policy = AllowAll /\ cfg.edge_policy = AllowAll /\ pc = "b_done") =>
          /\ ghost.exhausted
          /\ DOMAIN nodes = {ghost.candidates[k].id : k \in 1 .. Len(ghost.candidates)}
          /\ \A id \in DOMAIN nodes :
                \E k \in CandidatesOf(id) :
                    /\ nodes[id] = ghost.candidates[k].data
                    /\ \A j \in CandidatesOf(id) : j <= k
          /\ \A from \in BuildIds :
                IF SampledFrom(ghost.sampled, from) = <<>>
                    THEN from \notin DOMAIN edges
                    ELSE /\ from \in DOMAIN edges
                         /\ edges[from] = SampledFrom(ghost.sampled, from)
          /\ ghost.node_evals = Len(ghost.candidates)
          /\ ghost.edge_evals = Len(ghost.sampled)
    /\ ghost.exhausted => pc \in {"b_edge", "b_add_edge", "b_done"}
    /\ (ghost.exhausted /\ sampler.count = 0) =>
          /\ nodes = EmptyMap
          /\ edges = EmptyMap
          /\ ghost.node_evals = 0
          /\ ghost.edge_evals = 0

\* a build with AllowAll twice has returned after two samples that held two
\* candidates of one id and two edges leaving one id, one of them dangling
C27_Witness ==
    /\ pc = "b_done"
    /\ cfg.node_policy = AllowAll
    /\ cfg.edge_policy = AllowAll
    /\ sampler.count = 2
    /\ \E id \in BuildIds : Cardinality(CandidatesOf(id)) >= 2
    /\ \E from \in DOMAIN edges :
          /\ Len(edges[from]) = 2
          /\ \E k \in 1 .. 2 : edges[from][k].to \notin DOMAIN nodes

\* C28: the two admissions do not touch each other.  Between samples and
\* after the sampling pass the edge buffer holds every sampled edge, whatever
\* the node policy answered; with DenyAll as node policy and AllowAll as edge
\* policy the returned graph has no node and stores every sampled edge, each
\* one dangling; and the node map returned is the one the admitted candidates
\* give, whatever the edge policy answered: with AllowAll as node policy and
\* DenyAll as edge policy it holds one node per sampled id and no edge.
C28_AdmissionsIndependent ==
    /\ pc \in {"b_next", "b_edge", "b_add_edge", "b_done"} =>
          edges_buffer = [k \in 1 .. Len(ghost.sampled) |-> ghost.sampled[k].edge]
    /\ pc \in {"b_edge", "b_add_edge", "b_done"} =>
          nodes = InsertAll(EmptyMap, ghost.admitted)
    /\ (pc = "b_done" /\ cfg.node_policy = DenyAll /\ cfg.edge_policy = AllowAll) =>
          /\ nodes = EmptyMap
          /\ ghost.node_evals = Len(ghost.candidates)
          /\ \A from \in BuildIds :
                IF SampledFrom(ghost.sampled, from) = <<>>
                    THEN from \notin DOMAIN edges
                    ELSE /\ from \in DOMAIN edges
                         /\ edges[from] = SampledFrom(ghost.sampled, from)
    /\ (pc = "b_done" /\ cfg.node_policy = AllowAll /\ cfg.edge_policy = DenyAll) =>
          /\ edges = EmptyMap
          /\ ghost.edge_evals = Len(ghost.sampled)
          /\ DOMAIN nodes = {ghost.candidates[k].id : k \in 1 .. Len(ghost.candidates)}

\* a build with DenyAll as node policy and AllowAll as edge policy has returned
\* a graph without nodes that stores an edge sampled together with a rejected
\* candidate of its source id
C28_Witness ==
    /\ pc = "b_done"
    /\ cfg.node_policy = DenyAll
    /\ cfg.edge_policy = AllowAll
    /\ nodes = EmptyMap
    /\ \E i \in 1 .. Len(ghost.sampled) :
          LET e == ghost.sampled[i].edge
          IN  /\ e.from \in DOMAIN edges
              /\ \E k \in 1 .. Len(edges[e.from]) : edges[e.from][k] = e
              /\ CandidatesOf(e.from) # {}
              /\ CandidatesOf(e.to) # {}

\* the lesser of two numbers
Min(a, b) == IF a <= b THEN a ELSE b

\* C34: a build with NodeBudget(N) as node policy never holds more than N
\* nodes and one with EdgeBudget(M) as edge policy never more than M edges;
\* when the sampled node ids are all distinct the nodes admitted are exactly
\* the first min(N, total) candidates, and the edges admitted under
\* EdgeBudget(M) are the first min(M, total) sampled edges.
C34_BudgetsBoundTheGraph ==
    /\ cfg.node_policy.op = "NodeBudget" =>
          /\ Cardinality(DOMAIN nodes) <= cfg.node_policy.budget
          /\ (/\ pc = "b_done"
              /\ \A i, j \in 1 .. Len(ghost.candidates) :
                    ghost.candidates[i].id = ghost.candidates[j].id => i = j) =>
                 /\ Len(ghost.admitted) = Min(cfg.node_policy.budget, Len(ghost.candidates))
                 /\ \A k \in 1 .. Len(ghost.admitted) :
                       ghost.admitted[k].node = ghost.candidates[k]
                 /\ DOMAIN nodes = {ghost.candidates[k].id : k \in 1 .. Len(ghost.admitted)}
    /\ cfg.edge_policy.op = "EdgeBudget" =>
          /\ EdgeCount(edges) <= cfg.edge_policy.budget
          /\ pc = "b_done" =>
                \A from \in BuildIds :
                    EdgesFrom(edges, from) =
                        SampledFrom(SubSeq(ghost.sampled, 1,
                                           Min(cfg.edge_policy.budget, Len(ghost.sampled))),
                                    from)

\* a build with NodeBudget as node policy has returned after sampling nodes
\* of distinct ids, more of them than the budget, and admitted the first ones
C34_Witness ==
    /\ pc = "b_done"
    /\ cfg.node_policy.op = "NodeBudget"
    /\ Len(ghost.candidates) > cfg.node_policy.budget
    /\ \A i, j \in 1 .. Len(ghost.candidates) :
          ghost.candidates[i].id = ghost.candidates[j].id => i = j
    /\ Cardinality(DOMAIN nodes) = cfg.node_policy.budget
    /\ ghost.candidates[1].id \in DOMAIN nodes

RECURSIVE FirstOfEachPair(_, _)
\* the edges of a sequence whose (from, to) pair is not in `seen` and does not
\* occur earlier in the sequence, in order
FirstOfEachPair(es, seen) ==
    IF es = <<>> THEN <<>>
    ELSE IF <<Head(es).from, Head(es).to>> \in seen
        THEN FirstOfEachPair(Tail(es), seen)
    ELSE <<Head(es)>>
             \o FirstOfEachPair(Tail(es), seen \cup {<<Head(es).from, Head(es).to>>})

\* the edges of es that leave `from`, in order
Leaving(es, from) == SelectSeq(es, LAMBDA e : e.from = from)

\* C35: with DenyParallelEdge as edge policy, each evaluation of the edge
\* policy sees the edges admitted from the earlier buffered edges, and the
\* built graph holds, of the sampled edges of one ordered (from, to) pair, the
\* first one sampled and no other; edges a -> b and b -> a are both kept.
C35_FirstOfEachPairKept ==
    cfg.edge_policy = DenyParallelEdge =>
        /\ pc = "b_edge" =>
              \A from \in BuildIds :
                  EdgesFrom(edges, from) =
                      Leaving(FirstOfEachPair(SubSeq(edges_buffer, 1, idx - 1), {}), from)
        /\ pc = "b_done" =>
              \A from \in BuildIds :
                  EdgesFrom(edges, from) =
                      Leaving(FirstOfEachPair([k \in 1 .. Len(ghost.sampled) |->
                                                  ghost.sampled[k].edge], {}), from)

\* a build with DenyParallelEdge has returned after two edges of one pair with
\* different weights were sampled, and holds the first of them only
C35_Witness ==
    /\ pc = "b_done"
    /\ cfg.edge_policy = DenyParallelEdge
    /\ Len(ghost.sampled) = 2
    /\ ghost.sampled[1].edge.from = ghost.sampled[2].edge.from
    /\ ghost.sampled[1].edge.to = ghost.sampled[2].edge.to
    /\ ghost.sampled[1].edge.weight # ghost.sampled[2].edge.weight
    /\ edges[ghost.sampled[1].edge.from] = <<ghost.sampled[1].edge>>

\* C10: whenever build evaluates the node policy, the graph it passes holds
\* exactly the nodes admitted from the earlier candidates (of earlier samples and
\* earlier in the same sample), holds no edge, and does not hold the candidate.
C10_NodePolicyContext ==
    (pc = "b_node" /\ pending.nodes # <<>>) =>
        /\ nodes = InsertAll(EmptyMap, ghost.admitted)
        /\ DOMAIN nodes = {ghost.admitted[a].node.id : a \in 1 .. Len(ghost.admitted)}
        /\ edges = EmptyMap
        /\ ghost.edge_evals = 0
        /\ \A id \in DOMAIN nodes : nodes[id] # Head(pending.nodes).data

\* the node policy is about to be evaluated on the second node of a sample,
\* with nodes of an earlier sample and the first node of this sample admitted
\* and an earlier candidate rejected
C10_Witness ==
    /\ pc = "b_node"
    /\ Len(pending.nodes) = 1
    /\ \E a, b \in 1 .. Len(ghost.admitted) :
          /\ ghost.admitted[a].sample < sampler.count
          /\ ghost.admitted[b].sample = sampler.count
    /\ Len(ghost.admitted) < sampler.issued - 1
    /\ Len(ghost.sampled) > 0

(***************************************************************************)
(* Properties of the Composite evaluations, stated for SpecPolicy.         *)
(***************************************************************************)
RECURSIVE SubPolicy(_, _)
\* the operand of p at a path
SubPolicy(p, path) ==
    IF path = <<>> THEN p
    ELSE SubPolicy(IF p.op = "Not" THEN p.p ELSE IF Head(path) = 1 THEN p.p1 ELSE p.p2,
                   Tail(path))

\* the positions of the last evaluation's calls that invoked the policy at path
InvokedAt(path) == {i \in 1 .. Len(ghost.calls) : ghost.calls[i].path = path}

\* the composites the last evaluation invoked
InvokedComposites ==
    {ghost.calls[i].path : i \in {j \in 1 .. Len(ghost.calls) :
        SubPolicy(ghost.before, ghost.calls[j].path).op \in {"And", "Or"}}}

Evaluated == ghost.calls # <<>>

\* C3 as stated: every evaluation of Composite::And(p1, p2) or Or(p1, p2) invokes
\* p1 and then p2, exactly once each, whatever p1 returned; a stateful second
\* operand (AuthBudget) has its state updated on every call of the composite.
C3_BothOperandsAlways ==
    Evaluated =>
        \A q \in InvokedComposites :
            /\ Cardinality(InvokedAt(Append(q, 1))) = 1
            /\ Cardinality(InvokedAt(Append(q, 2))) = 1
            /\ \A i \in InvokedAt(Append(q, 1)), j \in InvokedAt(Append(q, 2)) : i < j
            /\ (SubPolicy(ghost.before, Append(q, 2)).op = "AuthBudget"
                    /\ SubPolicy(ghost.before, Append(q, 2)).budget > 0) =>
                  SubPolicy(policy, Append(q, 2)).budget
                      = SubPolicy(ghost.before, Append(q, 2)).budget - 1

\* C3, amended: every evaluation of a composite invokes p1 exactly once, first;
\* it invokes p2, once and after p1, exactly when p1 returned true (And) or
\* false (Or); an operand that is not invoked keeps its state, an AuthBudget
\* that is invoked with budget left loses one unit, and the composite returns
\* p1's result when it stops there and p2's result otherwise.
C3_ShortCircuit ==
    Evaluated =>
        \A q \in InvokedComposites :
            LET c == SubPolicy(ghost.before, q)
                first == InvokedAt(Append(q, 1))
                second == InvokedAt(Append(q, 2))
                own == InvokedAt(q)
            IN  /\ Cardinality(first) = 1
                /\ Cardinality(own) = 1
                /\ \A i \in first, k \in own :
                      LET r1 == ghost.calls[i].result
                          goes_on == (c.op = "And" /\ r1) \/ (c.op = "Or" /\ ~r1)
                      IN  /\ i < k
                          /\ IF goes_on
                                THEN /\ Cardinality(second) = 1
                                     /\ \A j \in second :
                                           /\ i < j /\ j < k
                                           /\ ghost.calls[k].result = ghost.calls[j].result
                                ELSE /\ second = {}
                                     /\ ghost.calls[k].result = r1
                                     /\ SubPolicy(policy, Append(q, 2)) = c.p2
                /\ \A side \in {1, 2} :
                      LET o == SubPolicy(ghost.before, Append(q, side))
                      IN  (o.op = "AuthBudget" /\ InvokedAt(Append(q, side)) # {}) =>
                              SubPolicy(policy, Append(q, side)).budget
                                  = IF o.budget > 0 THEN o.budget - 1 ELSE 0

\* an add on And(p1, AuthBudget with budget left) whose p1 returned false: the
\* budget in second position was not invoked and is intact
C3_Witness ==
    /\ Evaluated
    /\ cfg.trait = "Authorize"
    /\ ghost.before.op = "And"
    /\ ghost.before.p2.op = "AuthBudget"
    /\ ghost.before.p2.budget > 0
    /\ InvokedAt(<<1>>) # {}
    /\ InvokedAt(<<2>>) = {}
    /\ policy.p2 = ghost.before.p2
    /\ ~ghost.result

\* what the policy p alone returns for the entity and the context of the last
\* is_compliant call
Alone(p) ==
    Policy_is_compliant(p, unwrap_or(ghost.entity, None), unwrap_or(ghost.context, None))

\* the last call was is_compliant on a Composite
IsCompliantCalled == cfg.name = "Composite" /\ cfg.trait = "Policy" /\ Evaluated

\* C20: identity laws.  For every policy P, entity and context,
\* And(AllowAll, P), And(P, AllowAll), Or(DenyAll, P) and Or(P, DenyAll) return
\* what P alone returns.
C20_IdentityLaws ==
    IsCompliantCalled =>
        /\ ghost.before.op = "And" /\ ghost.before.p1 = AllowAll
              => ghost.result = Alone(ghost.before.p2)
        /\ ghost.before.op = "And" /\ ghost.before.p2 = AllowAll
              => ghost.result = Alone(ghost.before.p1)
        /\ ghost.before.op = "Or" /\ ghost.before.p1 = DenyAll
              => ghost.result = Alone(ghost.before.p2)
        /\ ghost.before.op = "Or" /\ ghost.before.p2 = DenyAll
              => ghost.result = Alone(ghost.before.p1)

\* And(AllowAll, P) returned false for a composite P that returns true in
\* another context
C20_Witness ==
    /\ IsCompliantCalled
    /\ ghost.before.op = "And" /\ ghost.before.p1 = AllowAll
    /\ ghost.before.p2.op \in {"And", "Or"}
    /\ ~ghost.result
    /\ \E context \in PolicyContexts :
          Policy_is_compliant(ghost.before.p2, unwrap_or(ghost.entity, None), context)

\* the last call was add on a Composite
AddCalled == cfg.name = "Composite" /\ cfg.trait = "Authorize" /\ Evaluated

\* C21: absorbing laws.  For every policy P, entity and context,
\* And(DenyAll, P) and And(P, DenyAll) return false and Or(AllowAll, P) and
\* Or(P, AllowAll) return true; for the stateful policies of Authorize, whose
\* always-rejecting leaf is AuthBudget(0), And(AuthBudget(0), P) and
\* And(P, AuthBudget(0)) return false whatever the state of P.
C21_AbsorbingLaws ==
    /\ IsCompliantCalled =>
          /\ ghost.before.op = "And" /\ DenyAll \in {ghost.before.p1, ghost.before.p2}
                => ~ghost.result
          /\ ghost.before.op = "Or" /\ AllowAll \in {ghost.before.p1, ghost.before.p2}
                => ghost.result
    /\ AddCalled =>
          (ghost.before.op = "And" /\ AuthBudget(0) \in {ghost.before.p1, ghost.before.p2}
                => ~ghost.result)

\* Or(P, AllowAll) returned true after the composite P had returned false
C21_Witness ==
    /\ IsCompliantCalled
    /\ ghost.before.op = "Or" /\ ghost.before.p2 = AllowAll
    /\ ghost.before.p1.op \in {"And", "Or"}
    /\ ~Alone(ghost.before.p1)
    /\ \E i \in InvokedAt(<<2>>) : ghost.calls[i].result
    /\ ghost.result

\* C22: Not(P).is_compliant(e, c) is the negation of P.is_compliant(e, c), P
\* being evaluated exactly once per call; so Not(DenyAll) returns true,
\* Not(AllowAll) false, and Not(Not(P)) what P returns.
C22_NotNegates ==
    IsCompliantCalled /\ ghost.before.op = "Not" =>
        /\ ghost.result = ~Alone(ghost.before.p)
        /\ Cardinality(InvokedAt(<<1>>)) = 1
        /\ \A i \in InvokedAt(<<1>>) : ghost.calls[i].result = ~ghost.result
        /\ ghost.before.p = DenyAll => ghost.result
        /\ ghost.before.p = AllowAll => ~ghost.result
        /\ ghost.before.p.op = "Not" =>
              /\ ghost.result = Alone(ghost.before.p.p)
              /\ Cardinality(InvokedAt(<<1, 1>>)) = 1

\* Not(Not(P)) returned false for a P that returns true in another context
C22_Witness ==
    /\ IsCompliantCalled
    /\ ghost.before.op = "Not" /\ ghost.before.p.op = "Not"
    /\ ~ghost.result
    /\ \E context \in PolicyContexts :
          Policy_is_compliant(ghost.before.p.p, unwrap_or(ghost.entity, None), context)

\* the chain the policy was built by, when it was built by and / or
TheChain == unwrap_or(cfg.chain, None)

\* the position of the call of the last evaluation that invoked the policy
\* at path, 0 when it was not invoked
CallAt(path) == IF InvokedAt(path) = {} THEN 0 ELSE CHOOSE i \in InvokedAt(path) : TRUE

IsExclusive(p) ==
    /\ p.op = "And"
    /\ \/ /\ p.p1.op = "Not" /\ p.p2.op = "Or"
          /\ p.p1.p = [op |-> "And", p1 |-> p.p2.p1, p2 |-> p.p2.p2]
       \/ /\ p.p1.op = "Or" /\ p.p2.op = "Not"
          /\ p.p2.p = [op |-> "And", p1 |-> p.p1.p1, p2 |-> p.p1.p2]

\* the Or(a, b) operand of an exclusive-or expression
Disjunction(p) == IF p.p1.op = "Or" THEN p.p1 ELSE p.p2

\* C24: for all truth values of two leaves A and B, And(Not(And(A, B)), Or(A, B))
\* returns A XOR B, and Or(A, B).and(Not(And(A, B))) returns the same.
C24_ExclusiveOr ==
    IsCompliantCalled /\ IsExclusive(ghost.before) =>
        ghost.result = (Alone(Disjunction(ghost.before).p1) # Alone(Disjunction(ghost.before).p2))

\* Or(A, B).and(Not(And(A, B))) returned true for A true and B false
C24_Witness ==
    /\ IsCompliantCalled
    /\ IsExclusive(ghost.before)
    /\ ghost.before.p1.op = "Or"
    /\ Alone(ghost.before.p1.p1) /\ ~Alone(ghost.before.p1.p2)
    /\ ghost.before.p1.p2 = DenyNodeOverride
    /\ ghost.result

(***************************************************************************)
(* Properties of WeightedVisitor, stated for SpecWeighted.                 *)
(***************************************************************************)
\* the last call was a should_explore, and it changed the stored distances
Stored == visitor.distances # ghost.last.before

\* C5 as stated: after any sequence of should_explore and visit calls, the stored
\* distance of every node that was the target of a should_explore call is the
\* least of the candidates (distance of from at the call + weight(from, to)) of
\* those calls; a stored distance is replaced only by a strictly smaller
\* candidate and should_explore returns true exactly when it stores a value.
C5_StoredIsLeastCandidate ==
    /\ \A to \in DOMAIN ghost.least :
          /\ to \in DOMAIN visitor.distances
          /\ visitor.distances[to] = ghost.least[to]
    /\ ghost.last.call = "should_explore" =>
          /\ ghost.last.result <=> Stored
          /\ (Stored /\ ghost.last.to \in DOMAIN ghost.last.before) =>
                visitor.distances[ghost.last.to] < ghost.last.before[ghost.last.to]

\* C5, amended: the stored distance of a target of should_explore is the least
\* of the candidates of those calls and, when visit created the node's entry,
\* of the 0.0 visit stored; should_explore stores its candidate, and returns
\* true, exactly when the node has no entry or the candidate is strictly
\* smaller than the stored distance, and changes nothing otherwise.
C5_StoredIsLeastOfCandidatesAndSeed ==
    /\ \A to \in DOMAIN ghost.least :
          /\ to \in DOMAIN visitor.distances
          /\ visitor.distances[to]
                = IF to \in ghost.seeded /\ 0 <= ghost.least[to] THEN 0 ELSE ghost.least[to]
    /\ \A to \in ghost.seeded : to \in DOMAIN visitor.distances
    /\ ghost.last.call = "should_explore" =>
          LET to == ghost.last.to
              before == ghost.last.before
              stores == to \notin DOMAIN before \/ ghost.last.candidate < before[to]
          IN  /\ ghost.last.result <=> stores
              /\ visitor.distances
                    = IF stores THEN MapInsert(before, to, ghost.last.candidate) ELSE before

\* visit created the entry of a node at 0.0 and a later should_explore towards
\* it, with a positive candidate, returned false and stored nothing
C5_Witness ==
    /\ ghost.last.call = "should_explore"
    /\ ghost.last.to \in ghost.seeded
    /\ ghost.last.candidate > 0
    /\ ~ghost.last.result
    /\ visitor.distances[ghost.last.to] = 0
    /\ ghost.least[ghost.last.to] > 0

(***************************************************************************)
(* Properties of the frontiers, stated for SpecFrontier.                   *)
(***************************************************************************)
\* the frontier under test is of one of these kinds
OfKind(kinds) == cfg.name = "Frontier" /\ cfg.fkind \in kinds

\* the ids of a sequence of items or pushes are pairwise different
DistinctIds(items) ==
    \A i, j \in 1 .. Len(items) : i # j => items[i].id # items[j].id

\* the last call was push(Some(id), cost) for an id an earlier push was made of
RepeatedPush ==
    /\ ghost.last.op = "push"
    /\ ghost.last.node # None
    /\ \E i \in 1 .. Len(ghost.pushes) - 1 : Some(ghost.pushes[i].id) = ghost.last.node

\* C11: Queue and Stack reject a push of an id that was ever pushed before,
\* pending or already popped, whatever the cost, and the rejected push changes
\* nothing; so no id is popped twice and no id is pending twice.
C11_EverPushedRejected ==
    OfKind({"Queue", "Stack"}) =>
        /\ RepeatedPush => ghost.last.result = Some(FALSE) /\ frontier = ghost.last.before
        /\ \A i, j \in 1 .. Len(ghost.popped) : i # j => ghost.popped[i] # ghost.popped[j]
        /\ DistinctIds(frontier.opened)

\* a push of an id that was popped before, at another cost than its first push,
\* was rejected
C11_Witness ==
    /\ OfKind({"Queue", "Stack"})
    /\ RepeatedPush
    /\ ghost.last.result = Some(FALSE)
    /\ \E i \in 1 .. Len(ghost.popped) : Some(ghost.popped[i]) = ghost.last.node
    /\ \E i \in 1 .. Len(ghost.pushes) - 1 :
          /\ Some(ghost.pushes[i].id) = ghost.last.node
          /\ ghost.pushes[i].cost # Last(ghost.pushes).cost

\* the last call was a pop that returned an id
PoppedSome == ghost.last.op = "pop" /\ ghost.last.result # None

\* the positions of the frontier the pop was made on whose removal gives the
\* frontier as it is now and whose id is the one returned
TakenAt ==
    {i \in 1 .. Len(ghost.last.before.opened) :
        /\ Some(ghost.last.before.opened[i].id) = ghost.last.result
        /\ frontier.opened = RemoveAt(ghost.last.before.opened, i)}

\* C12: after any sequence of pushes and pops, MinHeap::pop returns the id of
\* an entry whose pushed cost is minimal among the entries then in the heap, and
\* MaxHeap::pop one whose cost is maximal; among equal costs any entry.
C12_HeapPopsExtremeCost ==
    OfKind({"MinHeap", "MaxHeap"}) /\ PoppedSome =>
        \E i \in TakenAt :
            \A j \in 1 .. Len(ghost.last.before.opened) :
                IF cfg.fkind = "MinHeap"
                    THEN ghost.last.before.opened[i].cost <= ghost.last.before.opened[j].cost
                    ELSE ghost.last.before.opened[i].cost >= ghost.last.before.opened[j].cost

\* a MinHeap that was popped before holds entries of different costs, and pop
\* returns an entry that was not the first one pushed
C12_Witness ==
    /\ OfKind({"MinHeap"})
    /\ PoppedSome
    /\ Len(ghost.popped) >= 2
    /\ \E i, j \in 1 .. Len(ghost.last.before.opened) :
          ghost.last.before.opened[i].cost # ghost.last.before.opened[j].cost
    /\ 1 \notin TakenAt

\* C13: MinHeap and MaxHeap never reject the push of an id: every such push,
\* of an id pending or already popped too, returns true and adds one entry, so
\* the entries left are the pushes made less the pops that returned an id, and
\* emptying the heap takes as many pops as there were pushes.
C13_HeapKeepsEveryPush ==
    OfKind({"MinHeap", "MaxHeap"}) =>
        /\ ghost.last.op = "push" /\ ghost.last.node # None =>
              /\ ghost.last.result = Some(TRUE)
              /\ frontier.opened =
                    Append(ghost.last.before.opened,
                           [id |-> Last(ghost.pushes).id, cost |-> Last(ghost.pushes).cost])
        /\ Len(frontier.opened) = Len(ghost.pushes) - Len(ghost.popped)
        /\ Frontier_is_empty(frontier) <=> Len(ghost.popped) = Len(ghost.pushes)

\* the push of an id that is pending and was popped before returned true
\* and added an entry
C13_Witness ==
    /\ OfKind({"MinHeap", "MaxHeap"})
    /\ ghost.last.op = "push"
    /\ ghost.last.result = Some(TRUE)
    /\ \E i \in 1 .. Len(ghost.popped) : Some(ghost.popped[i]) = ghost.last.node
    /\ \E i \in 1 .. Len(ghost.last.before.opened) :
          Some(ghost.last.before.opened[i].id) = ghost.last.node
    /\ Len(frontier.opened) = Len(ghost.last.before.opened) + 1

\* the ids that were pending when the last pop was made, in the order of their
\* pushes: those of the accepted pushes that no earlier pop returned
PendingInPushOrder ==
    LET earlier == {ghost.popped[i] : i \in 1 .. Len(ghost.popped) - 1}
        accepted(p) == p.result /\ p.id \notin earlier
    IN  SelectSeq(ghost.pushes, accepted)

\* C14: Queue::pop returns the pending id that was pushed earliest and
\* Stack::pop the one pushed latest; the costs given to push play no part.
C14_FifoAndLifo ==
    OfKind({"Queue", "Stack"}) /\ PoppedSome =>
        /\ PendingInPushOrder # <<>>
        /\ ghost.last.result =
              Some(IF cfg.fkind = "Queue" THEN Head(PendingInPushOrder).id
                   ELSE Last(PendingInPushOrder).id)

\* three ids pushed on a Queue at costs 2, 1 and none came out in the order
\* of their pushes
C14_Witness ==
    /\ OfKind({"Queue"})
    /\ PoppedSome
    /\ Len(ghost.pushes) = 3 /\ Len(ghost.popped) = 3
    /\ \A i \in 1 .. 3 : ghost.pushes[i].id = ghost.popped[i]
    /\ <<ghost.pushes[1].cost, ghost.pushes[2].cost, ghost.pushes[3].cost>> = <<2, 1, 0>>

\* C15: for every frontier (Queue, Stack, MinHeap, MaxHeap) pop on an empty
\* frontier returns None and leaves the frontier as it was, and pop returns
\* Some(id) exactly when entries remain; no pop panics.
C15_PopOnEmptyIsNone ==
    cfg.name = "Frontier" /\ ghost.last.op = "pop" =>
        /\ ~ghost.last.panic
        /\ ghost.last.result # None <=> ~Frontier_is_empty(ghost.last.before)
        /\ Frontier_is_empty(ghost.last.before) => frontier = ghost.last.before

(***************************************************************************)
(* Properties of AuthBudget, stated for SpecBudget.                        *)
(***************************************************************************)
\* the number of add calls made so far that returned true
Accepted == Cardinality({k \in 1 .. Len(ghost.calls) : ghost.calls[k].result})

\* C19: an AuthBudget built with budget N returns true for exactly the first
\* N add calls and false for every later one, whatever the entity and the
\* context; the counter goes down by one per accepted call and never below
\* zero, and a rejected call changes nothing.
C19_FirstNAccepted ==
    cfg.name = "AuthBudget" =>
        /\ \A k \in 1 .. Len(ghost.calls) : ghost.calls[k].result <=> k <= cfg.budget
        /\ policy.budget >= 0
        /\ policy.budget = cfg.budget - Accepted
        /\ ghost.calls # <<>> =>
              IF Last(ghost.calls).result
                  THEN policy.budget = ghost.before.budget - 1
                  ELSE policy = ghost.before

\* a budget of 2 accepted two calls for different entities and contexts and
\* rejected two more, the second rejected one for the entity and the context
\* of the first accepted one
C19_Witness ==
    /\ cfg.name = "AuthBudget"
    /\ cfg.budget = 2
    /\ Len(ghost.calls) = 4
    /\ ghost.calls[1].entity # ghost.calls[2].entity
    /\ ghost.calls[1].context # ghost.calls[2].context
    /\ ghost.calls[4].entity = ghost.calls[1].entity
    /\ ghost.calls[4].context = ghost.calls[1].context
    /\ ~ghost.calls[3].result /\ ~ghost.calls[4].result
    /\ policy.budget = 0

(***************************************************************************)
(* Properties of Graph::add_node and Graph::add_edge, stated for SpecGraph. *)
(***************************************************************************)
\* the positions of the add_node calls made so far, and those made for one id
NodeCalls == {k \in 1 .. Len(ghost.calls) : ghost.calls[k].op = "add_node"}
NodeCallsOf(id) == {k \in NodeCalls : ghost.calls[k].id = id}

\* the last call made
LastCall == Last(ghost.calls)

\* C25: after any sequence of add_node calls the node map holds one node per
\* distinct id inserted, the node of the last add_node call with that id, and
\* add_node never changes the edge map.
C25_LastWriteWins ==
    cfg.name = "Graph" =>
        /\ DOMAIN nodes = {ghost.calls[k].id : k \in NodeCalls}
        /\ \A id \in DOMAIN nodes :
              \E k \in NodeCallsOf(id) :
                  /\ \A j \in NodeCallsOf(id) : j <= k
                  /\ nodes[id] = ghost.calls[k].data
        /\ ghost.calls # <<>> /\ LastCall.op = "add_node" => edges = ghost.before.edges

\* an id was added twice with different payloads, between the two an edge was
\* added, and the map holds the later payload
C25_Witness ==
    /\ cfg.name = "Graph"
    /\ Len(ghost.calls) = 3
    /\ ghost.calls[1].op = "add_node" /\ ghost.calls[2].op = "add_edge"
    /\ ghost.calls[3].op = "add_node"
    /\ ghost.calls[1].id = ghost.calls[3].id
    /\ ghost.calls[1].data # ghost.calls[3].data
    /\ nodes[ghost.calls[3].id] = ghost.calls[3].data
    /\ Cardinality(DOMAIN nodes) = 1

\* the edges of the add_edge calls made so far, in order
EdgeCalls ==
    LET isEdge(c) == c.op = "add_edge"
        called == SelectSeq(ghost.calls, isEdge)
    IN  [k \in 1 .. Len(called) |-> called[k].edge]

\* the edges of a sequence that leave from one id, in order
LeavingFrom(es, from) ==
    LET leaves(e) == e.from = from
    IN  SelectSeq(es, leaves)

\* C26: add_edge always succeeds, whether or not an endpoint is in the node
\* map: it appends the edge to the adjacency sequence of edge.from(), creating
\* it if absent, keeps the order of the edges already there, never
\* deduplicates, and leaves the node map and every other sequence unchanged.
C26_AddEdgeAppends ==
    cfg.name = "Graph" =>
        /\ DOMAIN edges = {EdgeCalls[k].from : k \in 1 .. Len(EdgeCalls)}
        /\ \A from \in DOMAIN edges : edges[from] = LeavingFrom(EdgeCalls, from)
        /\ ghost.calls # <<>> /\ LastCall.op = "add_edge" =>
              /\ nodes = ghost.before.nodes
              /\ edges[LastCall.edge.from] =
                    Append(EdgesFrom(ghost.before.edges, LastCall.edge.from), LastCall.edge)
              /\ \A from \in DOMAIN edges \ {LastCall.edge.from} :
                    from \in DOMAIN ghost.before.edges /\ edges[from] = ghost.before.edges[from]

\* an edge equal to one already stored was added between two ids that are not
\* in the node map, after an edge of another source
C26_Witness ==
    /\ cfg.name = "Graph"
    /\ Len(ghost.calls) = 3
    /\ LastCall.op = "add_edge"
    /\ ghost.calls[1] = LastCall
    /\ ghost.calls[2].op = "add_edge" /\ ghost.calls[2].edge.from # LastCall.edge.from
    /\ nodes = EmptyMap
    /\ Len(edges[LastCall.edge.from]) = 2

(***************************************************************************)
(* Properties of two traversals on one frontier, stated for SpecReuse.     *)
(***************************************************************************)
\* C32: should_explore alone decides what traverse pushes, also on a Queue
\* used twice: on the graph with the edges 0 -> 1 and 0 -> 2, after a
\* traverse from 0 with the visitor that explores nothing the Queue is
\* empty, and after a second traverse from 0 on the same Queue with the
\* visitor that explores everything the Queue is not empty.
C32_SecondTraverseFillsQueue ==
    (/\ cfg.fkind = "Queue"
     /\ cfg.first = "ExploreNone"
     /\ cfg.second = "ExploreAll"
     /\ edges = FanGraph.edges
     /\ pc = "done") =>
        IF ghost.round = 1 THEN Frontier_is_empty(frontier)
        ELSE ~Frontier_is_empty(frontier)

(***************************************************************************)
(* Properties of Or(budget, uniqueness), stated for SpecAdmit.             *)
(***************************************************************************)
\* the identity of a candidate: the id of a node, the (from, to) of an edge
Identity(entity) ==
    IF "id" \in DOMAIN entity THEN <<entity.id>> ELSE <<entity.from, entity.to>>

\* the positions before k of the candidates that were admitted
AdmittedBefore(k) == {j \in 1 .. k - 1 : ghost.calls[j].result}

\* C33 as stated: once the budget is used up by its N admissions, a candidate
\* whose identity equals that of a candidate admitted earlier is rejected, in
\* the stateful forms as well as in the graph-context form.
C33_DuplicateRejectedOnceExhausted ==
    cfg.name = "Admission" =>
        \A k \in 1 .. Len(ghost.calls) :
            (/\ Cardinality(AdmittedBefore(k)) >= cfg.budget
             /\ \E j \in AdmittedBefore(k) :
                   Identity(ghost.calls[j].entity) = Identity(ghost.calls[k].entity))
                => ~ghost.calls[k].result

\* C33, amended: in the graph-context form Or(EdgeBudget(N), UniqueEdge) a
\* candidate is admitted exactly when fewer than N candidates were admitted
\* before it or no admitted candidate has its (from, to) pair; in the stateful
\* forms Or(AuthBudget(N), Unique...) the first N candidates are admitted
\* whatever they are, and a later candidate is admitted exactly when no
\* candidate presented after the N-th has its identity: the uniqueness operand
\* never saw the first N.
C33_OrBudgetUnique ==
    cfg.name = "Admission" =>
        \A k \in 1 .. Len(ghost.calls) :
            ghost.calls[k].result =
                IF cfg.form = "GraphEdge"
                    THEN \/ Cardinality(AdmittedBefore(k)) < cfg.budget
                         \/ \A j \in AdmittedBefore(k) :
                               Identity(ghost.calls[j].entity) # Identity(ghost.calls[k].entity)
                    ELSE \/ k <= cfg.budget
                         \/ \A j \in cfg.budget + 1 .. k - 1 :
                               Identity(ghost.calls[j].entity) # Identity(ghost.calls[k].entity)

\* Or(AuthBudget(N), UniqueNode) with N > 0 has admitted, after the budget was
\* used up, a node whose id was admitted before, and has then rejected it
C33_Witness ==
    /\ cfg.name = "Admission"
    /\ cfg.form = "AuthNode"
    /\ cfg.budget > 0
    /\ \E k \in 1 .. Len(ghost.calls) - 1 :
          /\ ghost.calls[k].result
          /\ Cardinality(AdmittedBefore(k)) >= cfg.budget
          /\ \E j \in AdmittedBefore(k) :
                Identity(ghost.calls[j].entity) = Identity(ghost.calls[k].entity)
          /\ ghost.calls[k + 1].entity = ghost.calls[k].entity
          /\ ~ghost.calls[k + 1].result

(***************************************************************************)
(* Properties of a traversal run to its end, stated for SpecTerminate.     *)
(***************************************************************************)

\* C38: traverse with a fresh Queue or Stack returns on every finite graph
\* whatever the visitor, a visitor that explores every edge and never stops on
\* a cyclic graph included, and no id is popped twice.
C38_QueueStackTerminates ==
    /\ [](cfg.fkind \in {"Queue", "Stack"} =>
            \A p, q \in Positions("pop") : log[p].a = log[q].a => p = q)
    /\ (cfg.fkind \in {"Queue", "Stack"} => <>(pc = "done"))

\* a traversal with a Queue or Stack and the NeverTerminateVisitor has
\* returned after it was asked about an edge that leads back to an id popped
\* before, every id of the graph having been popped
C38_Witness ==
    /\ Returned
    /\ cfg.fkind \in {"Queue", "Stack"}
    /\ cfg.vkind = "NeverTerminate"
    /\ PoppedIds = Ids
    /\ \E p \in Positions("should_explore"), q \in Positions("pop") :
          q < p /\ log[q].a = log[p].b /\ log[p].a # log[p].b /\ log[p].r

\* the pops of an id that was visited before: the item popped is a stale one
StalePops ==
    {p \in Positions("pop") : \E q \in Positions("visit") : q < p /\ log[q].a = log[p].a}

\* the should_explore calls of the loop turn that starts with the pop at p
AskedAfter(p) ==
    {e \in Positions("should_explore") :
        e > p /\ \A q \in Positions("pop") : ~(p < q /\ q < e)}

PositiveSimpleGraph ==
    \A f \in DOMAIN edges : \A i \in 1 .. Len(edges[f]) :
        /\ edges[f][i].weight > 0
        /\ edges[f][i].from # edges[f][i].to
        /\ \A j \in 1 .. Len(edges[f]) : edges[f][j].to = edges[f][i].to => j = i

RECURSIVE Relaxed(_, _)
\* the map of lightest weights d after so many more rounds over all the edges
Relaxed(d, rounds) ==
    IF rounds = 0 THEN d
    ELSE Relaxed([id \in DOMAIN d |->
                    LET via == UNION {{d[f] + edges[f][i].weight :
                                         i \in {j \in 1 .. Len(edges[f]) :
                                                  edges[f][j].to = id}} :
                                      f \in {g \in DOMAIN edges : g \in DOMAIN d}}
                        all == via \cup {d[id]}
                    IN  CHOOSE m \in all : \A o \in all : m <= o],
                 rounds - 1)

\* the weight of the lightest path from the start node to every id; an id out
\* of reach gets more than any path weighs
Lightest ==
    LET ids == DOMAIN nodes \cup Ids
        far == 1 + 3 * EdgeCount(edges) * Cardinality(ids)
    IN  Relaxed([id \in ids |-> IF id = cfg.start THEN 0 ELSE far], Cardinality(ids))

\* C40: WeightedVisitor with MinHeap is Dijkstra's algorithm: on a graph with
\* strictly positive weights, no self-loop and no parallel edges, from the
\* moment traverse visits a node the distance stored for it is the weight of
\* the lightest path from the start node to it, then and ever after.
C40_VisitedDistancesLightest ==
    (cfg.fkind = "MinHeap" /\ cfg.vkind = "Weighted" /\ PositiveSimpleGraph) =>
        \A p \in Positions("visit") :
            /\ log[p].a \in DOMAIN visitor.distances
            /\ visitor.distances[log[p].a] = Lightest[log[p].a]

\* a traversal with a MinHeap and a WeightedVisitor on such a graph has
\* returned after it visited a node whose first stored distance was replaced
\* by a smaller one
C40_Witness ==
    /\ Returned
    /\ cfg.fkind = "MinHeap"
    /\ cfg.vkind = "Weighted"
    /\ PositiveSimpleGraph
    /\ \E p, q \in Positions("should_explore"), at \in Positions("visit") :
          /\ p < q
          /\ q < at
          /\ log[p].b = log[q].b
          /\ log[at].a = log[q].b
          /\ log[p].r
          /\ log[q].r
====
